---- MODULE Spec2Model ----
(***************************************************************************)
(* A model of glmrl's review pipeline: the classification of raw GitLab    *)
(* notes into events (transformNote), the assembly of an item's history    *)
(* (assembleHistory), the reconstruction of comment threads (buildThreads),*)
(* the concurrent loading of one merge request (loadPR), the listing of a  *)
(* page (Gitlab.ListPullRequests) and the service-level listing and        *)
(* filtering (Service.ListPullRequests).                                   *)
(***************************************************************************)
EXTENDS Integers, Sequences, FiniteSets, TLC

(***************************************************************************)
(* Bounds of the model.                                                    *)
(***************************************************************************)
\* the largest number of raw notes one merge request carries
MaxNotes == 3
\* creation timestamps are 1..MaxTime, resolution timestamps 2..MaxTime+1
MaxTime == 2
\* merge requests on one page of the listing, and non-empty pages of the listing
MaxPerPage == 2
MaxPages == 2

\* the calls of getProject in one run, and the minutes a run lasts
MaxCalls == 3
MaxMinutes == 90

\* the messages the table receives in one run, and the entries a load returns
MaxMsgs == 4
MaxRows == 2

(***************************************************************************)
(* Data: users, timestamps, note bodies, positions.                        *)
(***************************************************************************)
\* git.SystemUser
SystemUser == [Username |-> "system"]

\* the usernames of the model: the current user (Service.me) and another one
Usernames == {"me", "other"}

\* the zero values of Go: an empty username, the zero time.Time
NoUsername == ""
NoTime == 0

\* git.EventType and git.ObjectType
EventTypeThreadResolved == "resolved"
EventTypeCommented == "commented"
EventTypeReplied == "replied"
EventTypeApproved == "approved"
EventTypeUnapproved == "unapproved"
ObjectTypeComment == "comment"

\* Note bodies are sequences of text chunks, so that "unapproved this merge
\* request" contains "approved this merge request" as the Go strings do.
ApprovedPattern == <<"approved", " this merge request">>
UnapprovedPattern == <<"un", "approved", " this merge request">>
PlainBody == <<"looks good to me">>
Bodies == {PlainBody, ApprovedPattern, UnapprovedPattern,
           <<"un", "approved", " this merge request", " again">>}

\* strings.Contains
Contains(s, substr) ==
    \E i \in 0..(Len(s) - Len(substr)) : SubSeq(s, i + 1, i + Len(substr)) = substr

\* gl.Note.Position: nil, or a position in a file
NoPosition == [IsNil |-> TRUE, NewPath |-> "", NewLine |-> 0]
Positions == {NoPosition, [IsNil |-> FALSE, NewPath |-> "a.go", NewLine |-> 10]}

\* the resolution fields a note created at time c can carry
Resolutions(c) ==
    {[Resolved |-> FALSE, ResolvedBy |-> NoUsername, ResolvedAt |-> NoTime]}
    \cup {[Resolved |-> TRUE, ResolvedBy |-> u, ResolvedAt |-> t] :
            u \in Usernames, t \in (c + 1)..(MaxTime + 1)}

\* gl.Note: the raw records with an id of ids
RawNotes(ids) ==
    UNION {
      {[ID |-> id, Author |-> a, System |-> sys, Body |-> b, Resolvable |-> rb,
        Resolved |-> r.Resolved, ResolvedBy |-> r.ResolvedBy, ResolvedAt |-> r.ResolvedAt,
        CreatedAt |-> c, Position |-> p] :
          id \in ids, a \in Usernames, sys \in BOOLEAN, b \in Bodies, rb \in BOOLEAN,
          r \in Resolutions(c), p \in Positions}
      : c \in 1..MaxTime}

(***************************************************************************)
(* transformNote and its helpers.                                          *)
(***************************************************************************)
\* Gitlab.transformUser
transformUser(username) == [Username |-> username]

\* Gitlab.threadPos
threadPos(note) ==
    IF note.Position.IsNil
    THEN ""
    ELSE note.Position.NewPath \o ":" \o ToString(note.Position.NewLine)

\* the switch of transformNote on the note's body
bodyType(body) ==
    IF Contains(body, ApprovedPattern) THEN EventTypeApproved
    ELSE IF Contains(body, UnapprovedPattern) THEN EventTypeUnapproved
    ELSE ""

\* transformNote without its look-up of the thread roots: every thread event
\* is a commented one
transformNoteAlwaysRoot(rootThreads, note) ==
    LET ev == [ID |-> ToString(note.ID),
               Actor |-> IF note.System THEN SystemUser ELSE transformUser(note.Author),
               Timestamp |-> note.CreatedAt,
               Type |-> EventTypeCommented,
               ObjectID |-> threadPos(note),
               ObjectType |-> ObjectTypeComment]
        resEv == [ID |-> ev.ID \o "!resolved",
                  Actor |-> transformUser(note.ResolvedBy),
                  Timestamp |-> note.ResolvedAt,
                  Type |-> EventTypeThreadResolved,
                  ObjectID |-> threadPos(note),
                  ObjectType |-> ObjectTypeComment]
    IN  IF ~note.Resolvable THEN [events |-> <<>>, transformed |-> FALSE]
        ELSE IF note.Resolved THEN [events |-> <<ev, resEv>>, transformed |-> TRUE]
        ELSE [events |-> <<ev>>, transformed |-> TRUE]

\* a transformNote whose events all carry the actor of the first one
transformNoteOneActor(rootThreads, note) ==
    LET out == transformNoteAlwaysRoot(rootThreads, note)
    IN  [out EXCEPT !.events = [i \in DOMAIN @ |-> [@[i] EXCEPT !.Actor = out.events[1].Actor]]]

\* a transformNote that keeps the raw author of a system note
transformNoteRawAuthor(rootThreads, note) ==
    LET out == transformNoteAlwaysRoot(rootThreads, note)
    IN  [out EXCEPT !.events = [i \in DOMAIN @ |->
                                  IF i = 1
                                  THEN [@[i] EXCEPT !.Actor = transformUser(note.Author)]
                                  ELSE @[i]]]

\* Gitlab.transformNote: the events of a note and whether it was transformed
transformNote(rootThreads, note) ==
    LET ev0 == [ID |-> ToString(note.ID),
                Actor |-> IF note.System THEN SystemUser ELSE transformUser(note.Author),
                Timestamp |-> note.CreatedAt,
                Type |-> bodyType(note.Body),
                ObjectID |-> "",
                ObjectType |-> ""]
        ev == [ev0 EXCEPT !.Type = IF threadPos(note) \in rootThreads
                                   THEN EventTypeReplied ELSE EventTypeCommented,
                          !.ObjectType = ObjectTypeComment,
                          !.ObjectID = threadPos(note)]
        resEv == [ID |-> ev.ID \o "!resolved",
                  Actor |-> transformUser(note.ResolvedBy),
                  Timestamp |-> note.ResolvedAt,
                  Type |-> EventTypeThreadResolved,
                  ObjectID |-> threadPos(note),
                  ObjectType |-> ObjectTypeComment]
    IN  IF ~note.Resolvable THEN [events |-> <<>>, transformed |-> FALSE]
        ELSE IF note.Resolved THEN [events |-> <<ev, resEv>>, transformed |-> TRUE]
        ELSE [events |-> <<ev>>, transformed |-> TRUE]

(***************************************************************************)
(* assembleHistory.                                                        *)
(***************************************************************************)
\* sort.Slice(notes, CreatedAt.Before): the orders of the notes of S it can
\* produce; notes with equal CreatedAt come out in any order
RECURSIVE sortNotes(_)
sortNotes(S) ==
    IF S = {} THEN {<<>>}
    ELSE UNION {{<<n>> \o rest : rest \in sortNotes(S \ {n})} :
                  n \in {m \in S : \A o \in S : ~(o.CreatedAt < m.CreatedAt)}}

\* the events of S in any order: assembleHistory without its final sort
RECURSIVE unsortedEvents(_)
unsortedEvents(S) ==
    IF S = {} THEN {<<>>}
    ELSE UNION {{<<e>> \o rest : rest \in unsortedEvents(S \ {e})} : e \in S}

\* sort.Slice(evs, Timestamp.Before) over the events ranged out of the map
\* evSet, whose iteration order is arbitrary: events with equal Timestamp come
\* out in any order
RECURSIVE sortEvents(_)
sortEvents(S) ==
    IF S = {} THEN {<<>>}
    ELSE UNION {{<<e>> \o rest : rest \in sortEvents(S \ {e})} :
                  e \in {m \in S : \A o \in S : ~(o.Timestamp < m.Timestamp)}}

\* the loop of assembleHistory over the sorted notes ns, from index i on, with
\* the running set of thread roots and the set of events collected so far
RECURSIVE collectEvents(_, _, _, _)
collectEvents(ns, i, rootThreads, evSet) ==
    IF i > Len(ns) THEN evSet
    ELSE LET r == transformNote(rootThreads, ns[i])
             evs == {r.events[k] : k \in DOMAIN r.events}
         IN  IF ~r.transformed
             THEN collectEvents(ns, i + 1, rootThreads, evSet)
             ELSE collectEvents(ns, i + 1,
                    rootThreads \cup {e.ObjectID : e \in {x \in evs : x.Type = EventTypeCommented}},
                    evSet \cup evs)

\* the map evSet of assembleHistory after its loop over the sorted notes ns
evSetOf(ns) == collectEvents(ns, 1, {}, {})

\* Gitlab.assembleHistory on the notes the API returned: the event sequences
\* it can return
assembleHistory(apiNotes) ==
    UNION {sortEvents(evSetOf(ns)) : ns \in sortNotes(apiNotes)}

(***************************************************************************)
(* buildThreads.  A thread (git.Comment with its Child links) is the       *)
(* sequence of its nodes, root first.                                      *)
(***************************************************************************)
\* &git.Comment{Author: ev.Actor, CreatedAt: ev.Timestamp}
newComment(ev) == [Author |-> ev.Actor, CreatedAt |-> ev.Timestamp, Resolved |-> FALSE]

\* processEvent marking only the root of a resolved thread
processEventRootOnly(threads, ev) ==
    CASE ev.Type = EventTypeCommented ->
           (ev.ObjectID :> <<newComment(ev)>>) @@ threads
      [] ev.Type = EventTypeReplied ->
           IF ev.ObjectID \notin DOMAIN threads THEN threads
           ELSE [threads EXCEPT ![ev.ObjectID] = Append(@, newComment(ev))]
      [] ev.Type = EventTypeThreadResolved ->
           IF ev.ObjectID \notin DOMAIN threads THEN threads
           ELSE [threads EXCEPT ![ev.ObjectID][1].Resolved = TRUE]
      [] OTHER -> threads

\* processEvent starting a chain for a reply or a resolution that finds none
processEventAdopting(threads, ev) ==
    CASE ev.Type \in {EventTypeCommented, EventTypeReplied, EventTypeThreadResolved}
         /\ ev.ObjectID \notin DOMAIN threads ->
           (ev.ObjectID :> <<newComment(ev)>>) @@ threads
      [] ev.Type = EventTypeCommented ->
           (ev.ObjectID :> <<newComment(ev)>>) @@ threads
      [] ev.Type = EventTypeReplied ->
           [threads EXCEPT ![ev.ObjectID] = Append(@, newComment(ev))]
      [] ev.Type = EventTypeThreadResolved ->
           [threads EXCEPT ![ev.ObjectID] =
              [i \in DOMAIN @ |-> [@[i] EXCEPT !.Resolved = TRUE]]]
      [] OTHER -> threads

\* the body of the loop of buildThreads: the map threads after event ev
processEvent(threads, ev) ==
    CASE ev.Type = EventTypeCommented ->
           (ev.ObjectID :> <<newComment(ev)>>) @@ threads
      [] ev.Type = EventTypeReplied ->
           IF ev.ObjectID \notin DOMAIN threads THEN threads
           ELSE [threads EXCEPT ![ev.ObjectID] = Append(@, newComment(ev))]
      [] ev.Type = EventTypeThreadResolved ->
           IF ev.ObjectID \notin DOMAIN threads THEN threads
           ELSE [threads EXCEPT ![ev.ObjectID] =
                   [i \in DOMAIN @ |-> [@[i] EXCEPT !.Resolved = TRUE]]]
      [] OTHER -> threads

\* the map threads of buildThreads after the first k events of history
RECURSIVE threadsAfter(_, _)
threadsAfter(history, k) ==
    IF k = 0 THEN <<>>
    ELSE processEvent(threadsAfter(history, k - 1), history[k])

\* Gitlab.buildThreads: the threads by object id (lo.Values of the map is
\* the range of this function)
buildThreads(history) == threadsAfter(history, Len(history))

\* Comment.Last
RECURSIVE Last(_)
Last(c) == IF Len(c) = 1 THEN c[1] ELSE Last(Tail(c))

(***************************************************************************)
(* The without-my-unresolved-threads filter of Service.ListPullRequests.   *)
(***************************************************************************)
\* Service.me
me == [Username |-> "me"]

\* the filter without its test of the last comment's author
withoutMyThreadsUnresolved(pr) ==
    ~\E id \in DOMAIN pr.Threads :
        pr.Threads[id][1].Author.Username = me.Username /\ ~pr.Threads[id][1].Resolved

\* the predicate handed to filter("without my unresolved threads", ...)
withoutMyUnresolvedThreads(pr) ==
    ~\E id \in DOMAIN pr.Threads :
        LET thread == pr.Threads[id]
            myUnresolvedThread == thread[1].Author.Username = me.Username
                                  /\ ~thread[1].Resolved
            lastCommentMine == Last(thread).Author.Username = me.Username
        IN  myUnresolvedThread /\ lastCommentMine

(***************************************************************************)
(* The filters of Service.ListPullRequests.  A *bool of the request is a   *)
(* sequence: empty for nil, of the one value pointed at otherwise.         *)
(***************************************************************************)
\* a nil *bool
NilBool == <<>>

\* lo.ContainsBy(users, func(u git.User) bool { return u.Username == username })
ContainsUser(users, username) ==
    \E k \in DOMAIN users : users[k].Username = username

\* lo.Contains(collection, element)
ContainsElem(collection, element) ==
    \E k \in DOMAIN collection : collection[k] = element

\* the approved-by-me predicate without its comparison with the request
approvedByMeWhateverRequested(req, pr) ==
    ContainsUser(pr.Approvals.By, me.Username)

\* the predicate handed to filter("approved by me", ...)
approvedByMe(req, pr) ==
    ContainsUser(pr.Approvals.By, me.Username) = req.ApprovedByMe[1]

\* the approval-rules predicate without its exception for the requested reviewer
satisfiesApprovalRulesOnly(req, pr) ==
    pr.Approvals.SatisfiesRules = req.SatisfiesApprovalRules[1]

\* the predicate handed to filter("satisfies approval rules", ...)
satisfiesApprovalRules(req, pr) ==
    LET approvalRequiredFromMe == ContainsUser(pr.Approvals.RequestedFrom, me.Username)
        approvedByMeToo == ContainsUser(pr.Approvals.By, me.Username)
    IN  (approvalRequiredFromMe /\ ~approvedByMeToo)
        \/ pr.Approvals.SatisfiesRules = req.SatisfiesApprovalRules[1]

\* the predicates handed to filter("authors include", ...) and
\* filter("authors exclude", ...)
authorsInclude(req, pr) == ContainsElem(req.Authors.Include, pr.Author.Username)
\* (an exclusion that gives way to the include set)
authorsExcludeUnlessIncluded(req, pr) ==
    ~ContainsElem(req.Authors.Exclude, pr.Author.Username)
    \/ ContainsElem(req.Authors.Include, pr.Author.Username)
authorsExclude(req, pr) == ~ContainsElem(req.Authors.Exclude, pr.Author.Username)

\* the predicates handed to filter("project paths include", ...) and
\* filter("project paths exclude", ...)
projectPathsInclude(req, pr) == ContainsElem(req.ProjectPaths.Include, pr.Project.FullPath)
projectPathsExclude(req, pr) == ~ContainsElem(req.ProjectPaths.Exclude, pr.Project.FullPath)

\* the filters, by the name given to filter(name, fn), in the order of the code
FilterOrder ==
    <<"approved by me", "without my unresolved threads", "satisfies approval rules",
      "authors include", "authors exclude",
      "project paths include", "project paths exclude">>

\* a condition that has the include filters run against empty sets too
isSetOrInclude(name, req) ==
    CASE name = "approved by me" -> req.ApprovedByMe # NilBool
      [] name = "without my unresolved threads" -> req.WithoutMyUnresolvedThreads
      [] name = "satisfies approval rules" -> req.SatisfiesApprovalRules # NilBool
      [] name = "authors include" -> TRUE
      [] name = "authors exclude" -> Len(req.Authors.Exclude) > 0
      [] name = "project paths include" -> TRUE
      [] name = "project paths exclude" -> Len(req.ProjectPaths.Exclude) > 0

\* the condition under which Service.ListPullRequests calls filter(name, ...)
isSet(name, req) ==
    CASE name = "approved by me" -> req.ApprovedByMe # NilBool
      [] name = "without my unresolved threads" -> req.WithoutMyUnresolvedThreads
      [] name = "satisfies approval rules" -> req.SatisfiesApprovalRules # NilBool
      [] name = "authors include" -> Len(req.Authors.Include) > 0
      [] name = "authors exclude" -> Len(req.Authors.Exclude) > 0
      [] name = "project paths include" -> Len(req.ProjectPaths.Include) > 0
      [] name = "project paths exclude" -> Len(req.ProjectPaths.Exclude) > 0

\* fn(pr), for the fn handed to filter(name, fn)
keeps(name, req, pr) ==
    CASE name = "approved by me" -> approvedByMe(req, pr)
      [] name = "without my unresolved threads" -> withoutMyUnresolvedThreads(pr)
      [] name = "satisfies approval rules" -> satisfiesApprovalRules(req, pr)
      [] name = "authors include" -> authorsInclude(req, pr)
      [] name = "authors exclude" -> authorsExclude(req, pr)
      [] name = "project paths include" -> projectPathsInclude(req, pr)
      [] name = "project paths exclude" -> projectPathsExclude(req, pr)

\* if <name is set> { filter(name, fn) }: prs = lo.Filter(prs, fn)
applyFilter(name, req, list) ==
    IF isSet(name, req)
    THEN SelectSeq(list, LAMBDA pr : keeps(name, req, pr))
    ELSE list

\* the if statements cut short after the first filter that removed an item
RECURSIVE applyFiltersUntilRemoval(_, _, _)
applyFiltersUntilRemoval(names, req, list) ==
    IF names = <<>> THEN list
    ELSE LET filtered == applyFilter(Head(names), req, list)
         IN  IF filtered # list THEN filtered
             ELSE applyFiltersUntilRemoval(Tail(names), req, filtered)

\* the if statements of the names, one after the other
RECURSIVE applyFilters(_, _, _)
applyFilters(names, req, list) ==
    IF names = <<>> THEN list
    ELSE applyFilters(Tail(names), req, applyFilter(Head(names), req, list))

\* the request with no filter set
NoFilters ==
    [ApprovedByMe |-> NilBool, WithoutMyUnresolvedThreads |-> FALSE,
     SatisfiesApprovalRules |-> NilBool,
     Authors |-> [Include |-> <<>>, Exclude |-> <<>>],
     ProjectPaths |-> [Include |-> <<>>, Exclude |-> <<>>]]

(***************************************************************************)
(* State.                                                                  *)
(***************************************************************************)
VARIABLES
    \* one call of transformNote: its arguments, its result, its position
    note, rootThreads, tnOut, tnPc,
    \* the history pipeline of one merge request: the notes the API returns,
    \* the map evSet, the returned history and error, the threads, the request's
    \* WithoutMyUnresolvedThreads, the list returned by the service, the position
    apiNotes, evSet, history, histErr, threads, reqWithout, prs, hPc,
    \* one call of loadPR: the position of each of its three tasks, the outcome
    \* of each task's fetch, the value each task returned to the errgroup, the
    \* named result err the tasks share, the item pr under assembly, the
    \* errgroup's first error, its context, the position and result of loadPR
    tPc, fetched, tRet, lpErr, lpPr, ewgErr, lpCtx, lpPc, lpRet,
    \* one call of Service.ListPullRequests: the request (whether its
    \* pagination is empty, whether it asks for the thread filter), the page
    \* being listed, the result slice and the task results of the engine call
    \* in progress, the first error of its errgroup, what the engine call
    \* returned, what ListAll has accumulated, what the service returned, the
    \* pagination of each engine call made, the page each call returned
    lsPc, paginationEmpty, lsPagination, lsWithout, page, result, itemRet, lsEwgErr,
    engRet, acc, svcRet, engCalls, engPages,
    \* the filters of Service.ListPullRequests applied to one listing: the
    \* request, the list listPRs returned, the list returned, the position
    fReq, fPrs, fOut, fPc,
    \* one call of List.Execute: the options of the command, the position,
    \* the error returned, whether PrepareService was called, the remote calls
    \* made so far
    cmdOpts, xPc, xErr, prepared, remoteCalls,
    \* one call of ListAll: its start page, the pages behind its fetch
    \* function and the call of it that fails, the page, the result so far,
    \* the pages fetched, the position, what ListAll returned
    laStart, laSizes, laFailAt, laPage, laResult, laCalls, laPc, laRet,
    \* getProject called by concurrent tasks: the projects cache, the clock
    \* (minutes), and per caller the project id asked for, the position, the
    \* project fetched and the result; the remote lookups made so far, the
    \* calls started so far, the value last stored under each id, the order
    \* in which the ids were last used
    projectsCache, now, gpPid, gpPc, gpVal, gpRet, gpFetches, projectCalls, gpCalls,
    lastWrite, lastUsed,
    \* one call of Gitlab.ListPullRequests with its loadPR calls side by side:
    \* per item and task the position and the outcome of the fetch, per item
    \* the named result err, the first error and the context of its errgroup,
    \* the position and the error of loadPR; the first error and the context
    \* of the listing's errgroup, the position of the listing
    sPc, sFetched, sErr, sEwgErr, sItemCtx, sItemPc, sItemErr, sListErr, sListCtx, sListPc,
    \* the refreshing table under the event loop: its poll interval (minutes),
    \* the position of the program, the ticks scheduled and not yet received,
    \* the ticks received, the reload and key commands returned by Update and
    \* not yet run, the calls of Actor.Load and of Actor.OnKey made so far,
    \* the keys pressed so far, the number of entries, the cursor of the table,
    \* the messages received so far
    pollInterval, tblPc, ticksScheduled, ticksReceived, reloadCmds, keyCmds, loads,
    onKeyCalls, pressed, entries, cursor, msgs,
    \* the data of the refreshing table under its commands: the entries, the
    \* rows of the table, the holder of the data mutex (0: nobody), and for
    \* every command its position, the reason it runs, the cursor it read, the
    \* entry it passed to OnKey, the message it returned, its error, and
    \* whether a command has panicked
    dEntries, dRows, dMu, dPc, dKind, dCur, dEnt, dMsg, dErr, dPanic

noteVars == <<note, rootThreads, tnOut, tnPc>>
histVars == <<apiNotes, evSet, history, histErr, threads, reqWithout, prs, hPc>>
loadVars == <<tPc, fetched, tRet, lpErr, lpPr, ewgErr, lpCtx, lpPc, lpRet>>
listVars == <<lsPc, paginationEmpty, lsPagination, lsWithout, page, result, itemRet, lsEwgErr,
              engRet, acc, svcRet, engCalls, engPages>>
filterVars == <<fReq, fPrs, fOut, fPc>>
execVars == <<cmdOpts, xPc, xErr, prepared, remoteCalls>>
allVars == <<laStart, laSizes, laFailAt, laPage, laResult, laCalls, laPc, laRet>>
cacheVars == <<projectsCache, now, gpPid, gpPc, gpVal, gpRet, gpFetches, projectCalls, gpCalls,
               lastWrite, lastUsed>>
scopeVars == <<sPc, sFetched, sErr, sEwgErr, sItemCtx, sItemPc, sItemErr, sListErr, sListCtx,
               sListPc>>
tableVars == <<pollInterval, tblPc, ticksScheduled, ticksReceived, reloadCmds, keyCmds, loads,
               onKeyCalls, pressed, entries, cursor, msgs>>
dataVars == <<dEntries, dRows, dMu, dPc, dKind, dCur, dEnt, dMsg, dErr, dPanic>>
\* the variables of the specifications that follow SpecAll
moreVars == <<cacheVars, scopeVars, tableVars, dataVars>>
vars == <<noteVars, histVars, loadVars, listVars, filterVars, execVars, allVars, moreVars>>

\* the variables of the transformNote call, when it is not the one running
NoteIdle ==
    /\ note = [ID |-> 0]
    /\ rootThreads = {}
    /\ tnOut = [events |-> <<>>, transformed |-> FALSE]
    /\ tnPc = "idle"

\* the variables of the history pipeline, when it is not the one running
HistIdle ==
    /\ apiNotes = {}
    /\ evSet = {}
    /\ history = <<>>
    /\ histErr = "nil"
    /\ threads = <<>>
    /\ reqWithout = FALSE
    /\ prs = <<>>
    /\ hPc = "idle"

\* the three tasks of loadPR
Tasks == {"project", "approvals", "history"}

\* git.PullRequest{}, as far as the three tasks fill it
ZeroPR == [Project |-> "zero", Approvals |-> "zero", History |-> "zero", Threads |-> "zero"]

\* the variables of loadPR, when it is not the one running
LoadIdle ==
    /\ tPc = [t \in Tasks |-> "idle"]
    /\ fetched = [t \in Tasks |-> "none"]
    /\ tRet = [t \in Tasks |-> "none"]
    /\ lpErr = "nil"
    /\ lpPr = ZeroPR
    /\ ewgErr = "nil"
    /\ lpCtx = "live"
    /\ lpPc = "idle"
    /\ lpRet = [pr |-> ZeroPR, err |-> "nil"]

\* a nil slice of pull requests, and the slice holding items
NilList == [isNil |-> TRUE, items |-> <<>>]
List(items) == [isNil |-> FALSE, items |-> items]

\* git.PullRequest{}, as far as the listing and the filters tell items apart
ZeroItem ==
    [ID |-> <<0, 0>>, Threads |-> <<>>, Author |-> [Username |-> NoUsername],
     Approvals |-> [RequestedFrom |-> <<>>, By |-> <<>>, SatisfiesRules |-> FALSE],
     Project |-> [FullPath |-> ""]]

\* the variables of the listing, when it is not the one running
ListIdle ==
    /\ lsPc = "idle"
    /\ paginationEmpty = FALSE
    /\ lsPagination = [Page |-> 0, PerPage |-> 0]
    /\ engCalls = <<>>
    /\ engPages = <<>>
    /\ lsWithout = FALSE
    /\ page = 0
    /\ result = <<>>
    /\ itemRet = <<>>
    /\ lsEwgErr = "nil"
    /\ engRet = [prs |-> NilList, err |-> "nil"]
    /\ acc = NilList
    /\ svcRet = [prs |-> NilList, err |-> "nil"]

\* the variables of the filters, when they are not the ones running
FilterIdle ==
    /\ fReq = NoFilters
    /\ fPrs = <<>>
    /\ fOut = <<>>
    /\ fPc = "idle"

\* FilterGroup{}
NoGroup == [Include |-> <<>>, Exclude |-> <<>>]

\* the variables of List.Execute, when it is not the one running
ExecIdle ==
    /\ cmdOpts = [State |-> "", Labels |-> NoGroup, Authors |-> NoGroup,
                  Pagination |-> [Page |-> 0, PerPage |-> 0]]
    /\ xPc = "idle"
    /\ xErr = "nil"
    /\ prepared = FALSE
    /\ remoteCalls = <<>>

\* a nil error
NilErr == <<>>

\* the variables of ListAll, when it is not the one running
AllIdle ==
    /\ laStart = 0
    /\ laSizes = <<>>
    /\ laFailAt = 0
    /\ laPage = 0
    /\ laResult = NilList
    /\ laCalls = <<>>
    /\ laPc = "idle"
    /\ laRet = [result |-> NilList, err |-> NilErr]

\* the variables of the getProject calls, when none is running
CacheIdle ==
    /\ projectsCache = <<>>
    /\ now = 0
    /\ gpPid = <<>>
    /\ gpPc = <<>>
    /\ gpVal = <<>>
    /\ gpRet = <<>>
    /\ gpFetches = <<>>
    /\ projectCalls = <<>>
    /\ gpCalls = 0
    /\ lastWrite = <<>>
    /\ lastUsed = <<>>

\* the variables of the listing with its loadPR calls, when it does not run
ScopeIdle ==
    /\ sPc = <<>>
    /\ sFetched = <<>>
    /\ sErr = <<>>
    /\ sEwgErr = <<>>
    /\ sItemCtx = <<>>
    /\ sItemPc = <<>>
    /\ sItemErr = <<>>
    /\ sListErr = "nil"
    /\ sListCtx = "live"
    /\ sListPc = "idle"

\* the variables of the refreshing table, when no program runs it
TableIdle ==
    /\ pollInterval = 0
    /\ tblPc = "idle"
    /\ ticksScheduled = 0
    /\ ticksReceived = 0
    /\ reloadCmds = <<>>
    /\ keyCmds = <<>>
    /\ loads = <<>>
    /\ onKeyCalls = {}
    /\ pressed = {}
    /\ entries = 0
    /\ cursor = 0
    /\ msgs = 0

\* the commands Update has returned and the event loop runs side by side
Cmds == {1, 2}

\* the data of the refreshing table, when no program runs its commands
DataIdle ==
    /\ dEntries = <<>>
    /\ dRows = <<>>
    /\ dMu = 0
    /\ dPc = [p \in Cmds |-> "idle"]
    /\ dKind = [p \in Cmds |-> "none"]
    /\ dCur = [p \in Cmds |-> 0]
    /\ dEnt = [p \in Cmds |-> 0]
    /\ dMsg = [p \in Cmds |-> "none"]
    /\ dErr = [p \in Cmds |-> "nil"]
    /\ dPanic = FALSE

\* the variables of the specifications that follow SpecAll, when none runs
MoreIdle == CacheIdle /\ ScopeIdle /\ TableIdle /\ DataIdle

(***************************************************************************)
(* SpecNote: transformNote applied to one raw note.                        *)
(***************************************************************************)
\* the object ids a note of the model can have
ObjectIDs == {threadPos([Position |-> p]) : p \in Positions}

InitNote ==
    /\ note \in RawNotes(1..MaxNotes)
    /\ rootThreads \in SUBSET ObjectIDs
    /\ tnOut = [events |-> <<>>, transformed |-> FALSE]
    /\ tnPc = "call"
    /\ HistIdle
    /\ LoadIdle
    /\ ListIdle
    /\ FilterIdle
    /\ ExecIdle
    /\ AllIdle
    /\ MoreIdle

\* evs, transformed := g.transformNote(rootThreads, note)
TransformNote ==
    /\ tnPc = "call"
    /\ tnOut' = transformNote(rootThreads, note)
    /\ tnPc' = "done"
    /\ UNCHANGED <<note, rootThreads, histVars, loadVars, listVars, filterVars, execVars, allVars, moreVars>>

NextNote == TransformNote

SpecNote == InitNote /\ [][NextNote]_vars

(***************************************************************************)
(* SpecHist: assembleHistory, buildThreads and the thread filter for one   *)
(* merge request.                                                          *)
(***************************************************************************)
\* the subsets of S of at most k elements
RECURSIVE SubsetsUpTo(_, _)
SubsetsUpTo(S, k) ==
    IF k = 0 THEN {{}}
    ELSE LET prev == SubsetsUpTo(S, k - 1)
         IN  prev \cup {T \cup {x} : T \in prev, x \in S}

\* the users who resolve threads in a listing
Resolvers == {"me"}

\* The notes of a listing: comments of users on a position or on none, each
\* resolved or not, and the system's approval notes, which are not resolvable.
ListedNotes ==
    {n \in RawNotes({0}) :
        IF n.Resolvable
        THEN ~n.System /\ n.Body = PlainBody /\ (n.Resolved => n.ResolvedBy \in Resolvers)
        ELSE /\ n.System /\ n.Body = ApprovedPattern /\ n.Author = "other"
             /\ ~n.Resolved /\ n.Position = NoPosition /\ n.CreatedAt = 1}

\* gives the notes of S distinct ids 1, 2, ..., in the order of their creation
numbered(S) ==
    LET s == CHOOSE q \in sortNotes(S) : TRUE
    IN  {[s[i] EXCEPT !.ID = i] : i \in DOMAIN s}

\* Timestamps are only compared with each other, so the notes of a listing
\* use the timestamps 1, 2, ... without leaving one out.
GapFree(S) ==
    LET used == {n.CreatedAt : n \in S} \cup {n.ResolvedAt : n \in {m \in S : m.Resolved}}
    IN  used = 1..Cardinality(used)

InitHist ==
    /\ apiNotes \in {numbered(S) : S \in {T \in SubsetsUpTo(ListedNotes, MaxNotes) : GapFree(T)}}
    /\ evSet = {}
    /\ history = <<>>
    /\ histErr = "nil"
    /\ threads = <<>>
    /\ reqWithout = FALSE
    /\ prs = <<>>
    /\ hPc = "load"
    /\ NoteIdle
    /\ LoadIdle
    /\ ListIdle
    /\ FilterIdle
    /\ ExecIdle
    /\ AllIdle
    /\ MoreIdle

\* the third task of loadPR: pr.History, err = g.assembleHistory(...), and on
\* success pr.Threads = g.buildThreads(pr.History)
LoadHistory ==
    /\ hPc = "load"
    /\ \/ \E es \in {evSetOf(ns) : ns \in sortNotes(apiNotes)} :
            \E evs \in sortEvents(es) :
                /\ evSet' = es
                /\ history' = evs
                /\ histErr' = "nil"
                /\ threads' = buildThreads(evs)
                /\ hPc' = "filter"
       \/ /\ history' = <<>>
          /\ histErr' = "call api to get MR notes"
          /\ hPc' = "failed"
          /\ UNCHANGED <<evSet, threads>>
    /\ UNCHANGED <<apiNotes, reqWithout, prs, noteVars, loadVars, listVars, filterVars, execVars, allVars, moreVars>>

\* the item assembled from the history and the threads
assembled == [History |-> history, Threads |-> threads]

\* Service.ListPullRequests over the one assembled item
FilterThreads ==
    /\ hPc = "filter"
    /\ \E w \in BOOLEAN :
        /\ reqWithout' = w
        /\ prs' = IF w THEN SelectSeq(<<assembled>>, withoutMyUnresolvedThreads)
                  ELSE <<assembled>>
    /\ hPc' = "done"
    /\ UNCHANGED <<apiNotes, evSet, history, histErr, threads, noteVars, loadVars, listVars, filterVars, execVars, allVars, moreVars>>

NextHist == LoadHistory \/ FilterThreads

SpecHist == InitHist /\ [][NextHist]_vars

(***************************************************************************)
(* SpecLoad: one call of loadPR.  Its three tasks run concurrently in an   *)
(* errgroup; the project task and the history task assign the named result *)
(* err of loadPR, which they share, and read it back.                      *)
(***************************************************************************)
InitLoad ==
    /\ tPc = [t \in Tasks |-> "start"]
    /\ fetched = [t \in Tasks |-> "none"]
    /\ tRet = [t \in Tasks |-> "running"]
    /\ lpErr = "nil"
    /\ lpPr = ZeroPR
    /\ ewgErr = "nil"
    /\ lpCtx = "live"
    /\ lpPc = "running"
    /\ lpRet = [pr |-> ZeroPR, err |-> "nil"]
    /\ NoteIdle
    /\ HistIdle
    /\ ListIdle
    /\ FilterIdle
    /\ ExecIdle
    /\ AllIdle
    /\ MoreIdle

\* errgroup.Group.Go: task t returns e; the first error returned is kept and
\* cancels the group's context
taskReturns(t, e) ==
    /\ tRet' = [tRet EXCEPT ![t] = e]
    /\ tPc' = [tPc EXCEPT ![t] = "done"]
    /\ IF e # "nil" /\ ewgErr = "nil"
       THEN ewgErr' = e /\ lpCtx' = "cancelled"
       ELSE UNCHANGED <<ewgErr, lpCtx>>

\* the outcomes of a remote call under the group's context: a call made
\* after the cancellation fails
callOutcomes == IF lpCtx = "cancelled" THEN {"failed"} ELSE {"ok", "failed"}

\* pr.Project, err = g.getProject(ctx, mr.ProjectID): a project in the cache
\* is returned without a remote call
ProjectFetch ==
    /\ tPc["project"] = "start"
    /\ \E o \in {"ok", "failed"} :
        /\ fetched' = [fetched EXCEPT !["project"] = o]
        /\ lpPr' = [lpPr EXCEPT !.Project = IF o = "ok" THEN "loaded" ELSE "zero"]
        /\ lpErr' = IF o = "ok" THEN "nil" ELSE "call api"
    /\ tPc' = [tPc EXCEPT !["project"] = "assigned"]
    /\ UNCHANGED <<tRet, ewgErr, lpCtx, lpPc, lpRet, noteVars, histVars, listVars, filterVars, execVars, allVars, moreVars>>

\* ...; err != nil { return fmt.Errorf("get project %d: %w", ...) }; return nil
ProjectReturn ==
    /\ tPc["project"] = "assigned"
    /\ taskReturns("project", IF lpErr # "nil" THEN "get project: " \o lpErr ELSE "nil")
    /\ UNCHANGED <<fetched, lpErr, lpPr, lpPc, lpRet, noteVars, histVars, listVars, filterVars, execVars, allVars, moreVars>>

\* the approvals task, whose err is a variable of its own
ApprovalsTask ==
    /\ tPc["approvals"] = "start"
    /\ \E o \in callOutcomes :
        /\ fetched' = [fetched EXCEPT !["approvals"] = o]
        /\ lpPr' = [lpPr EXCEPT !.Approvals = IF o = "ok" THEN "loaded" ELSE @]
        /\ taskReturns("approvals",
                       IF o = "ok" THEN "nil" ELSE "call api to get MR approvals")
    /\ UNCHANGED <<lpErr, lpPc, lpRet, noteVars, histVars, listVars, filterVars, execVars, allVars, moreVars>>

\* pr.History, err = g.assembleHistory(ctx, mr.ProjectID, mr.IID)
HistoryFetch ==
    /\ tPc["history"] = "start"
    /\ \E o \in callOutcomes :
        /\ fetched' = [fetched EXCEPT !["history"] = o]
        /\ lpPr' = [lpPr EXCEPT !.History = IF o = "ok" THEN "loaded" ELSE "zero"]
        /\ lpErr' = IF o = "ok" THEN "nil" ELSE "call api to get MR notes"
    /\ tPc' = [tPc EXCEPT !["history"] = "assigned"]
    /\ UNCHANGED <<tRet, ewgErr, lpCtx, lpPc, lpRet, noteVars, histVars, listVars, filterVars, execVars, allVars, moreVars>>

\* ...; err != nil { return fmt.Errorf("assemble history: %w", err) };
\* pr.Threads = g.buildThreads(pr.History); return nil
HistoryReturn ==
    /\ tPc["history"] = "assigned"
    /\ IF lpErr # "nil"
       THEN /\ taskReturns("history", "assemble history: " \o lpErr)
            /\ UNCHANGED lpPr
       ELSE /\ taskReturns("history", "nil")
            /\ lpPr' = [lpPr EXCEPT !.Threads = IF lpPr.History = "loaded"
                                                THEN "loaded" ELSE "zero"]
    /\ UNCHANGED <<fetched, lpErr, lpPc, lpRet, noteVars, histVars, listVars, filterVars, execVars, allVars, moreVars>>

\* err = ewg.Wait(): the three tasks have returned; loadPR returns
LoadPRWait ==
    /\ lpPc = "running"
    /\ \A t \in Tasks : tPc[t] = "done"
    /\ lpErr' = ewgErr
    /\ lpCtx' = "cancelled"
    /\ lpRet' = IF ewgErr # "nil"
                THEN [pr |-> ZeroPR, err |-> "wait for goroutines: " \o ewgErr]
                ELSE [pr |-> lpPr, err |-> "nil"]
    /\ lpPc' = "returned"
    /\ UNCHANGED <<tPc, fetched, tRet, lpPr, ewgErr, noteVars, histVars, listVars, filterVars, execVars, allVars, moreVars>>

NextLoad ==
    \/ ProjectFetch \/ ProjectReturn
    \/ ApprovalsTask
    \/ HistoryFetch \/ HistoryReturn
    \/ LoadPRWait

SpecLoad == InitLoad /\ [][NextLoad]_vars

(***************************************************************************)
(* SpecList: one call of Service.ListPullRequests, through listPRs and     *)
(* ListAll, down to the engine's ListPullRequests and its per-item tasks.  *)
(* An item is assembled by loadPR in one step.                             *)
(***************************************************************************)
\* the threads an assembled item may carry: none, or one of mine that is
\* unresolved and unanswered
SampleThreads ==
    {<<>>, "a.go:10" :> <<newComment([Actor |-> me, Timestamp |-> 1])>>}

\* what loadPR fills in of an item besides its threads
SampleItem ==
    [Author |-> [Username |-> "other"],
     Approvals |-> [RequestedFrom |-> <<me>>, By |-> <<>>, SatisfiesRules |-> FALSE],
     Project |-> [FullPath |-> "g/a"]]

\* req.Pagination.PerPage = 100
PerPageAll == 100

\* the pagination handed to the engine by a listFn that takes it from the
\* request in every case
callPaginationOfRequest == lsPagination

\* the pagination the engine is called with: page after page of 100 through
\* ListAll, or the request's own
callPagination ==
    IF paginationEmpty THEN [Page |-> page, PerPage |-> PerPageAll] ELSE lsPagination

InitList ==
    /\ lsPc = "api"
    /\ paginationEmpty \in BOOLEAN
    /\ lsWithout \in BOOLEAN
    /\ lsPagination \in IF paginationEmpty THEN {[Page |-> 0, PerPage |-> 0]}
                       ELSE [Page : 1..MaxPages, PerPage : 1..MaxPerPage]
    /\ page = IF paginationEmpty THEN 1 ELSE lsPagination.Page
    /\ engCalls = <<>>
    /\ engPages = <<>>
    /\ result = <<>>
    /\ itemRet = <<>>
    /\ lsEwgErr = "nil"
    /\ engRet = [prs |-> NilList, err |-> "nil"]
    /\ acc = NilList
    /\ svcRet = [prs |-> NilList, err |-> "nil"]
    /\ NoteIdle
    /\ HistIdle
    /\ LoadIdle
    /\ FilterIdle
    /\ ExecIdle
    /\ AllIdle
    /\ MoreIdle

\* ListMergeRequests fails: Gitlab.ListPullRequests returns at once
ListMergeRequestsFails ==
    /\ lsPc = "api"
    /\ engCalls' = Append(engCalls, callPagination)
    /\ engRet' = [prs |-> NilList, err |-> "call api"]
    /\ lsPc' = "engineReturned"
    /\ UNCHANGED <<engPages, paginationEmpty, lsPagination, lsWithout, page, result, itemRet, lsEwgErr,
                   acc, svcRet, noteVars, histVars, loadVars, filterVars, execVars, allVars, moreVars>>

\* ListMergeRequests returns the n merge requests of the page; result is
\* made and one task per merge request started
ListMergeRequests ==
    /\ lsPc = "api"
    /\ engCalls' = Append(engCalls, callPagination)
    /\ \E n \in 0..(IF callPagination.Page > MaxPages THEN 0
                     ELSE IF callPagination.PerPage < MaxPerPage
                     THEN callPagination.PerPage ELSE MaxPerPage) :
        /\ result' = [i \in 1..n |-> ZeroItem]
        /\ itemRet' = [i \in 1..n |-> "running"]
    /\ lsEwgErr' = "nil"
    /\ lsPc' = "tasks"
    /\ UNCHANGED <<engPages, paginationEmpty, lsPagination, lsWithout, page, engRet, acc, svcRet,
                   noteVars, histVars, loadVars, filterVars, execVars, allVars, moreVars>>

\* the task of merge request idx: loadPR returns an error, which the
\* errgroup keeps if it is the first, or an item, stored at result[idx]
LoadItem(idx) ==
    /\ lsPc = "tasks"
    /\ itemRet[idx] = "running"
    /\ \/ LET e == "load PR " \o ToString(idx) \o ": wait for goroutines"
          IN  /\ itemRet' = [itemRet EXCEPT ![idx] = e]
              /\ lsEwgErr' = IF lsEwgErr = "nil" THEN e ELSE lsEwgErr
              /\ UNCHANGED result
       \/ \E th \in SampleThreads :
              /\ result' = [result EXCEPT ![idx] =
                                [ID |-> <<page, idx>>, Threads |-> th] @@ SampleItem]
              /\ itemRet' = [itemRet EXCEPT ![idx] = "nil"]
              /\ UNCHANGED lsEwgErr
    /\ UNCHANGED <<engCalls, engPages, lsPc, paginationEmpty, lsPagination, lsWithout, page, engRet, acc, svcRet,
                   noteVars, histVars, loadVars, filterVars, execVars, allVars, moreVars>>

\* a Wait that hands out the items that were assembled, whatever the error
listWaitPartial(err, res) ==
    [prs |-> List(SelectSeq(res, LAMBDA pr : pr # ZeroItem)), err |-> "nil"]

\* a Wait that returns the items last first
listWaitReversed(err, res) ==
    IF err # "nil"
    THEN [prs |-> NilList, err |-> "wait for goroutines: " \o err]
    ELSE [prs |-> List([i \in 1..Len(res) |-> res[Len(res) + 1 - i]]), err |-> "nil"]

\* if err = ewg.Wait(); err != nil { return nil, ... }; return result, nil
listWait(err, res) ==
    IF err # "nil"
    THEN [prs |-> NilList, err |-> "wait for goroutines: " \o err]
    ELSE [prs |-> List(res), err |-> "nil"]

\* every task has returned: Gitlab.ListPullRequests returns
EngineWait ==
    /\ lsPc = "tasks"
    /\ \A i \in DOMAIN itemRet : itemRet[i] # "running"
    /\ engRet' = listWait(lsEwgErr, result)
    /\ engPages' = IF lsEwgErr = "nil" THEN Append(engPages, result) ELSE engPages
    /\ lsPc' = "engineReturned"
    /\ UNCHANGED <<engCalls, paginationEmpty, lsPagination, lsWithout, page, result, itemRet, lsEwgErr,
                   acc, svcRet, noteVars, histVars, loadVars, filterVars, execVars, allVars, moreVars>>

\* ErrAtPage.Error
ErrAtPage(p, err) == "at page " \o ToString(p) \o ": " \o err

\* one turn of ListAll's loop after listFn(page) has returned: an error ends
\* it with no list, an empty page ends it with what was accumulated, any
\* other page is appended and the next page asked for
ListAll ==
    /\ lsPc = "engineReturned"
    /\ paginationEmpty
    /\ IF engRet.err # "nil"
       THEN /\ lsPc' = "listed"
            /\ UNCHANGED <<acc, page>>
       ELSE IF Len(engRet.prs.items) = 0
       THEN /\ lsPc' = "listed"
            /\ UNCHANGED <<acc, page>>
       ELSE /\ acc' = List(acc.items \o engRet.prs.items)
            /\ page' = page + 1
            /\ lsPc' = "api"
    /\ UNCHANGED <<engCalls, engPages, paginationEmpty, lsPagination, lsWithout, result, itemRet, lsEwgErr,
                   engRet, svcRet, noteVars, histVars, loadVars, filterVars, execVars, allVars, moreVars>>

\* what listFn returned to listPRs: ListAll's result, or the one page
listed ==
    IF ~paginationEmpty THEN engRet
    ELSE IF engRet.err # "nil"
    THEN [prs |-> NilList, err |-> ErrAtPage(page, engRet.err)]
    ELSE [prs |-> acc, err |-> "nil"]

\* the request of the listing: of its filters, only the thread filter may
\* be set
lsReq == [NoFilters EXCEPT !.WithoutMyUnresolvedThreads = lsWithout]

\* Service.ListPullRequests returns: an error of listPRs with no list, or
\* the list, filtered by the filters the request sets
ServiceReturn ==
    /\ \/ lsPc = "engineReturned" /\ ~paginationEmpty
       \/ lsPc = "listed"
    /\ svcRet' =
        IF listed.err # "nil"
        THEN [prs |-> NilList, err |-> "list pull requests: " \o listed.err]
        ELSE IF \E k \in DOMAIN FilterOrder : isSet(FilterOrder[k], lsReq)
        THEN [prs |-> List(applyFilters(FilterOrder, lsReq, listed.prs.items)),
              err |-> "nil"]
        ELSE [prs |-> listed.prs, err |-> "nil"]
    /\ lsPc' = "returned"
    /\ UNCHANGED <<engCalls, engPages, paginationEmpty, lsPagination, lsWithout, page, result, itemRet, lsEwgErr,
                   engRet, acc, noteVars, histVars, loadVars, filterVars, execVars, allVars, moreVars>>

NextList ==
    \/ ListMergeRequestsFails
    \/ ListMergeRequests
    \/ \E idx \in DOMAIN itemRet : LoadItem(idx)
    \/ EngineWait
    \/ ListAll
    \/ ServiceReturn

SpecList == InitList /\ [][NextList]_vars

(***************************************************************************)
(* SpecFilter: the filters of Service.ListPullRequests applied to a list   *)
(* that listPRs returned without error.                                    *)
(***************************************************************************)
\* the values of a *bool of the request
BoolPtrs == {NilBool, <<TRUE>>, <<FALSE>>}

\* the project paths of the items
ProjectPaths == {"g/a", "g/b"}

\* the requests
Requests ==
    [ApprovedByMe : BoolPtrs,
     WithoutMyUnresolvedThreads : BOOLEAN,
     SatisfiesApprovalRules : BoolPtrs,
     Authors : [Include : {<<>>, <<"me">>, <<"me", "other">>},
                Exclude : {<<>>, <<"me">>}],
     ProjectPaths : [Include : {<<>>, <<"g/a">>},
                     Exclude : {<<>>, <<"g/a">>, <<"g/b">>}]]

\* the assembled items, without their IDs
Assembled ==
    [Author : [Username : Usernames],
     Approvals : [RequestedFrom : {<<>>, <<me>>},
                  By : {<<[Username |-> "other"]>>, <<[Username |-> "other"], me>>},
                  SatisfiesRules : BOOLEAN],
     Project : [FullPath : ProjectPaths],
     Threads : SampleThreads]

\* two items that differ in every field the filters read
PairItems ==
    {[Author |-> [Username |-> "me"],
      Approvals |-> [RequestedFrom |-> <<me>>, By |-> <<[Username |-> "other"]>>,
                     SatisfiesRules |-> TRUE],
      Project |-> [FullPath |-> "g/b"],
      Threads |-> "a.go:10" :> <<newComment([Actor |-> me, Timestamp |-> 1])>>],
     [Author |-> [Username |-> "other"],
      Approvals |-> [RequestedFrom |-> <<>>, By |-> <<[Username |-> "other"], me>>,
                     SatisfiesRules |-> FALSE],
      Project |-> [FullPath |-> "g/a"],
      Threads |-> <<>>]}

\* the lists listPRs may return: one item, or two of PairItems; the item at
\* position k is merge request k of the page
Listings ==
    LET numbered2(l) == [k \in DOMAIN l |-> [ID |-> <<1, k>>] @@ l[k]]
    IN  {numbered2(<<a>>) : a \in Assembled}
        \cup {numbered2(<<a, b>>) : a \in PairItems, b \in PairItems}

InitFilter ==
    /\ fReq \in Requests
    /\ fPrs \in Listings
    /\ fOut = <<>>
    /\ fPc = "listed"
    /\ NoteIdle
    /\ HistIdle
    /\ LoadIdle
    /\ ListIdle
    /\ ExecIdle
    /\ AllIdle
    /\ MoreIdle

\* the filters of Service.ListPullRequests, in the order of the code
FilterPRs ==
    /\ fPc = "listed"
    /\ fOut' = applyFilters(FilterOrder, fReq, fPrs)
    /\ fPc' = "returned"
    /\ UNCHANGED <<fReq, fPrs, noteVars, histVars, loadVars, listVars, execVars, allVars, moreVars>>

NextFilter == FilterPRs

SpecFilter == InitFilter /\ [][NextFilter]_vars

(***************************************************************************)
(* SpecExec: one call of List.Execute.                                     *)
(***************************************************************************)
\* FilterGroup.Empty
Empty(g) == Len(g.Include) = 0 /\ Len(g.Exclude) = 0

\* a validation that takes either pagination field for a pagination
validateEitherPaginationField(c) ==
    IF \/ c.State # ""
       \/ ~Empty(c.Labels)
       \/ ~Empty(c.Authors)
       \/ c.Pagination.Page # 0 \/ c.Pagination.PerPage # 0
    THEN "nil"
    ELSE "at least one backend-side filter must be present"

\* List.validateBackendFilters
validateBackendFilters(c) ==
    IF \/ c.State # ""
       \/ ~Empty(c.Labels)
       \/ ~Empty(c.Authors)
       \/ c.Pagination.Page # 0 /\ c.Pagination.PerPage # 0
    THEN "nil"
    ELSE "at least one backend-side filter must be present"

\* Execute: the engine.ListPRsRequest inside the request handed to the
\* service, which is all the engine and the backend get to see
engineRequest(c) ==
    [State |-> c.State,
     Labels |-> [Include |-> c.Labels.Include, Exclude |-> c.Labels.Exclude],
     Pagination |-> [Page |-> c.Pagination.Page, PerPage |-> c.Pagination.PerPage]]

\* the values of a FilterGroup of the command
Groups == [Include : {<<>>, <<"x">>}, Exclude : {<<>>, <<"y">>}]

InitExec ==
    /\ cmdOpts \in [State : {"", "open"}, Labels : Groups, Authors : Groups,
                    Pagination : [Page : {0, 1}, PerPage : {0, 20}]]
    /\ xPc = "call"
    /\ xErr = "nil"
    /\ prepared = FALSE
    /\ remoteCalls = <<>>
    /\ NoteIdle
    /\ HistIdle
    /\ LoadIdle
    /\ ListIdle
    /\ FilterIdle
    /\ AllIdle
    /\ MoreIdle

\* Execute builds the request and validates the backend filters
ExecuteValidate ==
    /\ xPc = "call"
    /\ LET err == validateBackendFilters(cmdOpts)
       IN  IF err # "nil"
           THEN xErr' = "validate backend filters: " \o err /\ xPc' = "returned"
           ELSE xErr' = "nil" /\ xPc' = "prepare"
    /\ UNCHANGED <<cmdOpts, prepared, remoteCalls, noteVars, histVars, loadVars,
                   listVars, filterVars, allVars, moreVars>>

\* svc, err := c.PrepareService(ctx): NewGitlab, then NewService, which asks
\* the engine for the current user
ExecutePrepareService ==
    /\ xPc = "prepare"
    /\ prepared' = TRUE
    /\ \/ /\ xErr' = "init service: init gitlab client"
          /\ xPc' = "returned"
          /\ UNCHANGED remoteCalls
       \/ /\ remoteCalls' = Append(remoteCalls, "GetCurrentUser")
          /\ \/ xErr' = "init service: get current user: call api to get current user"
                /\ xPc' = "returned"
             \/ xErr' = "nil" /\ xPc' = "tui"
    /\ UNCHANGED <<cmdOpts, noteVars, histVars, loadVars, listVars, filterVars, allVars, moreVars>>

\* tui.NewListPR and teax.Run: the table loads the list through the service
ExecuteRun ==
    /\ xPc = "tui"
    /\ \/ /\ xErr' = "initialize list prs tui"
          /\ UNCHANGED remoteCalls
       \/ /\ remoteCalls' = Append(remoteCalls, "ListPullRequests")
          /\ xErr' \in {"nil", "run list mrs tui"}
    /\ xPc' = "returned"
    /\ UNCHANGED <<cmdOpts, prepared, noteVars, histVars, loadVars, listVars,
                   filterVars, allVars, moreVars>>

NextExec == ExecuteValidate \/ ExecutePrepareService \/ ExecuteRun

SpecExec == InitExec /\ [][NextExec]_vars

(***************************************************************************)
(* SpecAll: one call of ListAll(startPage, listFn).  The call number j of  *)
(* listFn asks for page startPage + j - 1; laSizes[j] is the number of     *)
(* items on that page (none beyond laSizes), laFailAt the number of the    *)
(* call that fails (0: none).                                              *)
(***************************************************************************)
\* ErrAtPage{Page: page, Err: err}
newErrAtPage(p, err) == [Page |-> p, Err |-> err]

\* ErrAtPage.Unwrap
Unwrap(e) == e.Err

\* the items of page p
nodesOf(p) ==
    LET j == p - laStart + 1
    IN  IF j \in DOMAIN laSizes THEN [i \in 1..laSizes[j] |-> <<p, i>>] ELSE <<>>

\* a failure that hands out what was accumulated
listAllFailurePartial(res, p, err) ==
    [result |-> res, err |-> <<newErrAtPage(p, err)>>]

\* return nil, ErrAtPage{Page: page, Err: err}
listAllFailure(res, p, err) ==
    [result |-> NilList, err |-> <<newErrAtPage(p, err)>>]

\* an append that puts the new page first
prependNodes(res, nodes) ==
    IF Len(nodes) = 0 THEN res ELSE List(nodes \o res.items)

\* result = append(result, nodes...)
appendNodes(res, nodes) ==
    IF Len(nodes) = 0 THEN res ELSE List(res.items \o nodes)

InitAll ==
    /\ laStart \in {1, 2}
    /\ laSizes \in [1..(MaxPages + 1) -> 0..MaxPerPage]
    /\ laFailAt \in 0..(MaxPages + 1)
    /\ laPage = laStart
    /\ laResult = NilList
    /\ laCalls = <<>>
    /\ laPc = "loop"
    /\ laRet = [result |-> NilList, err |-> NilErr]
    /\ NoteIdle
    /\ HistIdle
    /\ LoadIdle
    /\ ListIdle
    /\ FilterIdle
    /\ ExecIdle
    /\ MoreIdle

\* one turn of the loop: listFn(page) fails, returns no item, or returns items
ListAllTurn ==
    /\ laPc = "loop"
    /\ laCalls' = Append(laCalls, laPage)
    /\ IF Len(laCalls) + 1 = laFailAt
       THEN /\ laRet' = listAllFailure(laResult, laPage, "fetch failed")
            /\ laPc' = "returned"
            /\ UNCHANGED <<laResult, laPage>>
       ELSE IF Len(nodesOf(laPage)) = 0
       THEN /\ laRet' = [result |-> laResult, err |-> NilErr]
            /\ laPc' = "returned"
            /\ UNCHANGED <<laResult, laPage>>
       ELSE /\ laResult' = appendNodes(laResult, nodesOf(laPage))
            /\ laPage' = laPage + 1
            /\ UNCHANGED <<laRet, laPc>>
    /\ UNCHANGED <<laStart, laSizes, laFailAt, noteVars, histVars, loadVars,
                   listVars, filterVars, execVars, moreVars>>

NextAll == ListAllTurn

SpecAll == InitAll /\ [][NextAll]_vars

\* ListAll is not suspended forever: nothing but listFn can hold it up
SpecAllFair == SpecAll /\ WF_vars(NextAll)

(***************************************************************************)
(* SpecCache: getProject called by concurrent tasks over the projects      *)
(* cache, an expirable LRU cache of at most MaxKeys entries whose Get and  *)
(* Set each take and release the cache's lock.                             *)
(***************************************************************************)
\* time.Hour, in minutes
Hour == 60

\* WithMaxKeys(100)
MaxKeys == 100

\* the tasks that call getProject at the same time
Callers == {1, 2}

\* the project ids asked for: the one cached first, two never cached at first
ProjectIDs == {1, MaxKeys, MaxKeys + 1}

\* git.Project{}
ZeroProject == 0

\* cache.NewCache[int, git.Project]().WithLRU().WithMaxKeys(100)
NewCache == [items |-> <<>>, evictList |-> <<>>]

\* the entry of key is the most recently used one (the front of evictList)
moveToFront(list, key) == <<key>> \o SelectSeq(list, LAMBDA k : k # key)

\* a Get that returns an entry whatever its expiry
cacheGetExpired(c, key, t) ==
    IF key \in DOMAIN c.items
    THEN [ok |-> TRUE, value |-> c.items[key].value,
          cache |-> [c EXCEPT !.evictList = moveToFront(@, key)]]
    ELSE [ok |-> FALSE, value |-> ZeroProject, cache |-> c]

\* projectsCache.Get(pid) at time t: the entry if present and not expired,
\* which makes it the most recently used one
cacheGet(c, key, t) ==
    IF key \in DOMAIN c.items /\ ~(t > c.items[key].expiresAt)
    THEN [ok |-> TRUE, value |-> c.items[key].value,
          cache |-> [c EXCEPT !.evictList = moveToFront(@, key)]]
    ELSE [ok |-> FALSE, value |-> ZeroProject, cache |-> c]

\* an eviction of the most recently used entry
removeNewest(c) ==
    LET key == c.evictList[1]
    IN [items |-> [k \in DOMAIN c.items \ {key} |-> c.items[k]],
        evictList |-> SubSeq(c.evictList, 2, Len(c.evictList))]

\* the eviction of an LRU cache: the back of evictList goes
removeOldest(c) ==
    LET key == c.evictList[Len(c.evictList)]
    IN [items |-> [k \in DOMAIN c.items \ {key} |-> c.items[k]],
        evictList |-> SubSeq(c.evictList, 1, Len(c.evictList) - 1)]

\* a Set that leaves the entry of a key already present alone
cacheSetIfAbsent(c, key, value, ttl, t) ==
    IF key \in DOMAIN c.items
    THEN c
    ELSE LET added == [items |-> (key :> [value |-> value, expiresAt |-> t + ttl]) @@ c.items,
                       evictList |-> <<key>> \o c.evictList]
         IN IF Cardinality(DOMAIN added.items) > MaxKeys THEN removeOldest(added) ELSE added

\* projectsCache.Set(pid, p, time.Hour) at time t: the entry is written and
\* is the most recently used one; a new key beyond MaxKeys evicts the oldest
cacheSet(c, key, value, ttl, t) ==
    IF key \in DOMAIN c.items
    THEN [items |-> [c.items EXCEPT ![key] = [value |-> value, expiresAt |-> t + ttl]],
          evictList |-> moveToFront(c.evictList, key)]
    ELSE LET added == [items |-> (key :> [value |-> value, expiresAt |-> t + ttl]) @@ c.items,
                       evictList |-> <<key>> \o c.evictList]
         IN IF Cardinality(DOMAIN added.items) > MaxKeys THEN removeOldest(added) ELSE added

\* the cache after getProject has succeeded for the ids 1..n in turn, at time 0
filled(n) ==
    [items |-> [k \in 1..n |-> [value |-> ZeroProject, expiresAt |-> 0 + Hour]],
     evictList |-> [i \in 1..n |-> n + 1 - i]]

\* the use counter after n uses
usedUpTo(n) == [k \in 1..n |-> k]

\* the next value of the use counter
nextUse ==
    IF DOMAIN lastUsed = {} THEN 1
    ELSE 1 + CHOOSE n \in {lastUsed[k] : k \in DOMAIN lastUsed} :
                 \A k \in DOMAIN lastUsed : lastUsed[k] <= n

InitCache ==
    /\ \E n \in {0, MaxKeys - 1} :
          /\ projectsCache = filled(n)
          /\ lastUsed = usedUpTo(n)
    /\ now = 0
    /\ gpPid = [c \in Callers |-> 0]
    /\ gpPc = [c \in Callers |-> "idle"]
    /\ gpVal = [c \in Callers |-> ZeroProject]
    /\ gpRet = [c \in Callers |-> [p |-> ZeroProject, err |-> "nil"]]
    /\ gpFetches = [c \in Callers |-> 0]
    /\ projectCalls = <<>>
    /\ gpCalls = 0
    /\ lastWrite = <<>>
    /\ NoteIdle
    /\ HistIdle
    /\ LoadIdle
    /\ ListIdle
    /\ FilterIdle
    /\ ExecIdle
    /\ AllIdle
    /\ ScopeIdle
    /\ TableIdle
    /\ DataIdle

\* a task calls getProject(ctx, pid)
GetProjectCall(c, pid) ==
    /\ gpPc[c] \in {"idle", "returned"}
    /\ gpCalls < MaxCalls
    /\ gpCalls' = gpCalls + 1
    /\ gpPid' = [gpPid EXCEPT ![c] = pid]
    /\ gpPc' = [gpPc EXCEPT ![c] = "get"]
    /\ gpVal' = [gpVal EXCEPT ![c] = ZeroProject]
    /\ gpRet' = [gpRet EXCEPT ![c] = [p |-> ZeroProject, err |-> "nil"]]
    /\ gpFetches' = [gpFetches EXCEPT ![c] = 0]
    /\ UNCHANGED <<projectsCache, now, projectCalls, lastWrite, lastUsed, noteVars, histVars,
                   loadVars, listVars, filterVars, execVars, allVars, scopeVars, tableVars, dataVars>>

\* if p, ok := g.projectsCache.Get(pid); ok { return p, nil }
GetProjectGet(c) ==
    /\ gpPc[c] = "get"
    /\ LET got == cacheGet(projectsCache, gpPid[c], now)
       IN /\ projectsCache' = got.cache
          /\ IF got.ok
             THEN /\ gpRet' = [gpRet EXCEPT ![c] = [p |-> got.value, err |-> "nil"]]
                  /\ gpPc' = [gpPc EXCEPT ![c] = "returned"]
                  /\ lastUsed' = (gpPid[c] :> nextUse) @@ lastUsed
             ELSE /\ gpPc' = [gpPc EXCEPT ![c] = "fetch"]
                  /\ UNCHANGED <<gpRet, lastUsed>>
    /\ UNCHANGED <<now, gpPid, gpVal, gpFetches, projectCalls, gpCalls, lastWrite, noteVars,
                   histVars, loadVars, listVars, filterVars, execVars, allVars, scopeVars, tableVars, dataVars>>

\* a remote lookup whose failure stores the zero project under the id
GetProjectFetchStoring(c) ==
    /\ gpPc[c] = "fetch"
    /\ projectCalls' = Append(projectCalls, gpPid[c])
    /\ gpFetches' = [gpFetches EXCEPT ![c] = @ + 1]
    /\ \E ok \in BOOLEAN :
          IF ok
          THEN /\ gpVal' = [gpVal EXCEPT ![c] = Len(projectCalls) + 1]
               /\ gpPc' = [gpPc EXCEPT ![c] = "set"]
               /\ UNCHANGED <<gpRet, projectsCache>>
          ELSE /\ gpRet' = [gpRet EXCEPT ![c] = [p |-> ZeroProject, err |-> "call api"]]
               /\ gpPc' = [gpPc EXCEPT ![c] = "returned"]
               /\ projectsCache' = cacheSet(projectsCache, gpPid[c], ZeroProject, Hour, now)
               /\ UNCHANGED gpVal
    /\ UNCHANGED <<now, gpPid, gpCalls, lastWrite, lastUsed, noteVars, histVars,
                   loadVars, listVars, filterVars, execVars, allVars, scopeVars, tableVars, dataVars>>

\* prj, _, err := g.cl.Projects.GetProject(pid, ...): the remote lookup, which
\* fails or returns the project as the remote holds it at this call
GetProjectFetch(c) ==
    /\ gpPc[c] = "fetch"
    /\ projectCalls' = Append(projectCalls, gpPid[c])
    /\ gpFetches' = [gpFetches EXCEPT ![c] = @ + 1]
    /\ \E ok \in BOOLEAN :
          IF ok
          THEN /\ gpVal' = [gpVal EXCEPT ![c] = Len(projectCalls) + 1]
               /\ gpPc' = [gpPc EXCEPT ![c] = "set"]
               /\ UNCHANGED gpRet
          ELSE /\ gpRet' = [gpRet EXCEPT ![c] = [p |-> ZeroProject, err |-> "call api"]]
               /\ gpPc' = [gpPc EXCEPT ![c] = "returned"]
               /\ UNCHANGED gpVal
    /\ UNCHANGED <<projectsCache, now, gpPid, gpCalls, lastWrite, lastUsed, noteVars, histVars,
                   loadVars, listVars, filterVars, execVars, allVars, scopeVars, tableVars, dataVars>>

\* g.projectsCache.Set(pid, p, time.Hour); return p, nil
GetProjectSet(c) ==
    /\ gpPc[c] = "set"
    /\ projectsCache' = cacheSet(projectsCache, gpPid[c], gpVal[c], Hour, now)
    /\ lastWrite' = (gpPid[c] :> gpVal[c]) @@ lastWrite
    /\ lastUsed' = (gpPid[c] :> nextUse) @@ lastUsed
    /\ gpRet' = [gpRet EXCEPT ![c] = [p |-> gpVal[c], err |-> "nil"]]
    /\ gpPc' = [gpPc EXCEPT ![c] = "returned"]
    /\ UNCHANGED <<now, gpPid, gpVal, gpFetches, projectCalls, gpCalls, noteVars, histVars,
                   loadVars, listVars, filterVars, execVars, allVars, scopeVars, tableVars, dataVars>>

\* three quarters of an hour pass
Tick ==
    /\ now + 45 <= MaxMinutes
    /\ now' = now + 45
    /\ UNCHANGED <<projectsCache, gpPid, gpPc, gpVal, gpRet, gpFetches, projectCalls, gpCalls,
                   lastWrite, lastUsed, noteVars, histVars, loadVars, listVars, filterVars,
                   execVars, allVars, scopeVars, tableVars, dataVars>>

NextCache ==
    \/ \E c \in Callers, pid \in ProjectIDs : GetProjectCall(c, pid)
    \/ \E c \in Callers : GetProjectGet(c)
    \/ \E c \in Callers : GetProjectFetch(c)
    \/ \E c \in Callers : GetProjectSet(c)
    \/ Tick

SpecCache == InitCache /\ [][NextCache]_vars

(***************************************************************************)
(* SpecScope: one call of Gitlab.ListPullRequests over a page of two merge *)
(* requests, the three tasks of each loadPR running side by side under the *)
(* context of its errgroup, itself a child of the listing's.               *)
(***************************************************************************)
\* the merge requests of the page
Items == {1, 2}

\* the context a task of item i passes to its remote call is cancelled: the
\* context of loadPR's errgroup is a child of the listing's
Cancelled(i) == sItemCtx[i] = "cancelled" \/ sListCtx = "cancelled"

\* the outcomes of the remote call of task t of item i: a call under a
\* cancelled context fails with the cancellation, but a project in the cache
\* is returned without a remote call
fetchOutcomes(i, t) ==
    IF Cancelled(i)
    THEN IF t = "project" THEN {"ok", "cancelled"} ELSE {"cancelled"}
    ELSE {"ok", "failed"}

InitScope ==
    /\ sPc = [i \in Items |-> [t \in Tasks |-> "start"]]
    /\ sFetched = [i \in Items |-> [t \in Tasks |-> "none"]]
    /\ sErr = [i \in Items |-> "nil"]
    /\ sEwgErr = [i \in Items |-> "nil"]
    /\ sItemCtx = [i \in Items |-> "live"]
    /\ sItemPc = [i \in Items |-> "running"]
    /\ sItemErr = [i \in Items |-> "nil"]
    /\ sListErr = "nil"
    /\ sListCtx = "live"
    /\ sListPc = "running"
    /\ NoteIdle
    /\ HistIdle
    /\ LoadIdle
    /\ ListIdle
    /\ FilterIdle
    /\ ExecIdle
    /\ AllIdle
    /\ CacheIdle
    /\ TableIdle
    /\ DataIdle

\* errgroup.Group.Go in loadPR of item i: task t returns e; the first error
\* returned is kept and cancels the context of the group
itemTaskReturns(i, t, e) ==
    /\ sPc' = [sPc EXCEPT ![i][t] = "done"]
    /\ IF e # "nil" /\ sEwgErr[i] = "nil"
       THEN /\ sEwgErr' = [sEwgErr EXCEPT ![i] = e]
            /\ sItemCtx' = [sItemCtx EXCEPT ![i] = "cancelled"]
       ELSE UNCHANGED <<sEwgErr, sItemCtx>>

\* pr.Project, err = g.getProject(ctx, ...) and pr.History, err =
\* g.assembleHistory(ctx, ...): the call returns and the task assigns the
\* named result err of loadPR
ItemFetch(i, t) ==
    /\ t \in {"project", "history"}
    /\ sPc[i][t] = "start"
    /\ \E o \in fetchOutcomes(i, t) :
          /\ sFetched' = [sFetched EXCEPT ![i][t] = o]
          /\ sErr' = [sErr EXCEPT ![i] = IF o = "ok" THEN "nil" ELSE o]
    /\ sPc' = [sPc EXCEPT ![i][t] = "assigned"]
    /\ UNCHANGED <<sEwgErr, sItemCtx, sItemPc, sItemErr, sListErr, sListCtx, sListPc,
                   noteVars, histVars, loadVars, listVars, filterVars, execVars, allVars,
                   cacheVars, tableVars, dataVars>>

\* ...; err != nil { return fmt.Errorf(...) }; return nil: the task tests the
\* named result err and returns
ItemTaskReturn(i, t) ==
    /\ t \in {"project", "history"}
    /\ sPc[i][t] = "assigned"
    /\ itemTaskReturns(i, t, sErr[i])
    /\ UNCHANGED <<sFetched, sErr, sItemPc, sItemErr, sListErr, sListCtx, sListPc,
                   noteVars, histVars, loadVars, listVars, filterVars, execVars, allVars,
                   cacheVars, tableVars, dataVars>>

\* the approvals task, whose err is a variable of its own
ItemApprovals(i) ==
    /\ sPc[i]["approvals"] = "start"
    /\ \E o \in fetchOutcomes(i, "approvals") :
          /\ sFetched' = [sFetched EXCEPT ![i]["approvals"] = o]
          /\ itemTaskReturns(i, "approvals", IF o = "ok" THEN "nil" ELSE o)
    /\ UNCHANGED <<sErr, sItemPc, sItemErr, sListErr, sListCtx, sListPc,
                   noteVars, histVars, loadVars, listVars, filterVars, execVars, allVars,
                   cacheVars, tableVars, dataVars>>

\* err = ewg.Wait() in loadPR of item i, and the return of the listing's task
\* that called it: an error is the first error of the listing's errgroup and
\* cancels its context
ItemWait(i) ==
    /\ sItemPc[i] = "running"
    /\ \A t \in Tasks : sPc[i][t] = "done"
    /\ sErr' = [sErr EXCEPT ![i] = sEwgErr[i]]
    /\ sItemCtx' = [sItemCtx EXCEPT ![i] = "cancelled"]
    /\ sItemErr' = [sItemErr EXCEPT ![i] = sEwgErr[i]]
    /\ sItemPc' = [sItemPc EXCEPT ![i] = "returned"]
    /\ IF sEwgErr[i] # "nil" /\ sListErr = "nil"
       THEN sListErr' = sEwgErr[i] /\ sListCtx' = "cancelled"
       ELSE UNCHANGED <<sListErr, sListCtx>>
    /\ UNCHANGED <<sPc, sFetched, sEwgErr, sListPc,
                   noteVars, histVars, loadVars, listVars, filterVars, execVars, allVars,
                   cacheVars, tableVars, dataVars>>

\* err = ewg.Wait() in Gitlab.ListPullRequests: every loadPR has returned
ScopeListWait ==
    /\ sListPc = "running"
    /\ \A i \in Items : sItemPc[i] = "returned"
    /\ sListPc' = "returned"
    /\ sListCtx' = "cancelled"
    /\ UNCHANGED <<sPc, sFetched, sErr, sEwgErr, sItemCtx, sItemPc, sItemErr, sListErr,
                   noteVars, histVars, loadVars, listVars, filterVars, execVars, allVars,
                   cacheVars, tableVars, dataVars>>

NextScope ==
    \/ \E i \in Items, t \in Tasks : ItemFetch(i, t)
    \/ \E i \in Items, t \in Tasks : ItemTaskReturn(i, t)
    \/ \E i \in Items : ItemApprovals(i)
    \/ \E i \in Items : ItemWait(i)
    \/ ScopeListWait

SpecScope == InitScope /\ [][NextScope]_vars

(***************************************************************************)
(* SpecTable: the RefreshingDataTable under the event loop of the program: *)
(* the loop calls Init once, passes every message to Update and runs the   *)
(* commands Update returns, each of them on its own.                       *)
(***************************************************************************)
\* List.PollInterval: no polling, or the default of five minutes
PollIntervals == {0, 5}

\* the keys table.DefaultKeyMap() binds to LineUp and LineDown; the keys of
\* its other bindings are tested in the same list
NavigationKeys == {"up", "k", "down", "j"}

\* the keys pressed in the model
PressedKeys == {"r", "q", "ctrl+c", "up", "j", "enter"}

\* for _, k := range tblKey { if k {...} } with no key bound to the table
isTableKeyNever(k) == FALSE

\* for _, k := range tblKey { if k {...} }: the key is one of the table's
isTableKey(k) == k \in NavigationKeys

\* a scheduleTick that schedules a tick whatever the poll interval
scheduleTickAlways == IF pollInterval < 0 THEN 0 ELSE 1

\* a scheduleTick whose command sends two ticks after the interval
scheduleTickTwice == IF pollInterval = 0 THEN 0 ELSE 2

\* scheduleTick: the number of ticks the returned command will send
scheduleTick == IF pollInterval = 0 THEN 0 ELSE 1

\* seq without its element at index i
removeAt(seq, i) == SubSeq(seq, 1, i - 1) \o SubSeq(seq, i + 1, Len(seq))

\* NewRefreshingDataTable has loaded the entries for the first time
InitTable ==
    /\ pollInterval \in PollIntervals
    /\ tblPc = "new"
    /\ ticksScheduled = 0
    /\ ticksReceived = 0
    /\ reloadCmds = <<>>
    /\ keyCmds = <<>>
    /\ loads = <<"initial">>
    /\ onKeyCalls = {}
    /\ pressed = {}
    /\ entries \in 0..MaxRows
    /\ cursor = 0
    /\ msgs = 0
    /\ NoteIdle
    /\ HistIdle
    /\ LoadIdle
    /\ ListIdle
    /\ FilterIdle
    /\ ExecIdle
    /\ AllIdle
    /\ CacheIdle
    /\ ScopeIdle
    /\ DataIdle

\* Init: return t.scheduleTick()
TableInit ==
    /\ tblPc = "new"
    /\ tblPc' = "running"
    /\ ticksScheduled' = scheduleTick
    /\ UNCHANGED <<pollInterval, ticksReceived, reloadCmds, keyCmds, loads, onKeyCalls, pressed,
                   entries, cursor, msgs, noteVars, histVars, loadVars, listVars, filterVars,
                   execVars, allVars, cacheVars, scopeVars, dataVars>>

\* Update(tickMsg): return t, tea.Batch(t.reloadCmd(), t.scheduleTick())
TickMsg ==
    /\ tblPc = "running"
    /\ msgs < MaxMsgs
    /\ ticksScheduled > 0
    /\ msgs' = msgs + 1
    /\ ticksReceived' = ticksReceived + 1
    /\ reloadCmds' = Append(reloadCmds, "tick")
    /\ ticksScheduled' = ticksScheduled - 1 + scheduleTick
    /\ UNCHANGED <<pollInterval, tblPc, keyCmds, loads, onKeyCalls, pressed, entries, cursor,
                   noteVars, histVars, loadVars, listVars, filterVars, execVars, allVars,
                   cacheVars, scopeVars, dataVars>>

\* Update(tea.WindowSizeMsg): t.resize(...); return t, tea.ClearScreen
WindowSizeMsg ==
    /\ tblPc = "running"
    /\ msgs < MaxMsgs
    /\ msgs' = msgs + 1
    /\ UNCHANGED <<pollInterval, tblPc, ticksScheduled, ticksReceived, reloadCmds, keyCmds,
                   loads, onKeyCalls, pressed, entries, cursor, noteVars, histVars, loadVars,
                   listVars, filterVars, execVars, allVars, cacheVars, scopeVars, dataVars>>

\* Update(tea.KeyMsg): a key of the table moves the cursor, "ctrl+c",
\* "c+ctrl" and "q" quit, "r" returns reloadCmd, any other key returns keyCmd
KeyMsg(k) ==
    /\ tblPc = "running"
    /\ msgs < MaxMsgs
    /\ msgs' = msgs + 1
    /\ pressed' = pressed \cup {k}
    /\ IF isTableKey(k)
       THEN /\ cursor' \in 0..(MaxRows - 1)
            /\ UNCHANGED <<tblPc, reloadCmds, keyCmds>>
       ELSE IF k \in {"ctrl+c", "c+ctrl", "q"}
       THEN /\ tblPc' = "quit"
            /\ UNCHANGED <<cursor, reloadCmds, keyCmds>>
       ELSE IF k = "r"
       THEN /\ reloadCmds' = Append(reloadCmds, "key")
            /\ UNCHANGED <<tblPc, cursor, keyCmds>>
       ELSE /\ keyCmds' = Append(keyCmds, k)
            /\ UNCHANGED <<tblPc, cursor, reloadCmds>>
    /\ UNCHANGED <<pollInterval, ticksScheduled, ticksReceived, loads, onKeyCalls, entries,
                   noteVars, histVars, loadVars, listVars, filterVars, execVars, allVars,
                   cacheVars, scopeVars, dataVars>>

\* reloadCmd: upd, err := t.reload(), which calls Actor.Load; on an error
\* the command returns the function tea.Quit as its message, which is no
\* tea.QuitMsg: Update logs it as unhandled and the program goes on
RunReload ==
    /\ tblPc = "running"
    /\ \E i \in DOMAIN reloadCmds :
          /\ reloadCmds' = removeAt(reloadCmds, i)
          /\ loads' = Append(loads, reloadCmds[i])
    /\ \/ UNCHANGED entries
       \/ entries' \in 0..MaxRows
    /\ UNCHANGED tblPc
    /\ UNCHANGED <<pollInterval, ticksScheduled, ticksReceived, keyCmds, onKeyCalls, pressed,
                   cursor, msgs, noteVars, histVars, loadVars, listVars, filterVars, execVars,
                   allVars, cacheVars, scopeVars, dataVars>>

\* keyCmd: with an entry under the cursor, hide, err := t.Actor.OnKey(key,
\* cursor, entry); hide removes the entry, and on an error the command
\* returns the function tea.Quit, which Update logs as unhandled
RunKeyCmd ==
    /\ tblPc = "running"
    /\ \E i \in DOMAIN keyCmds :
          /\ keyCmds' = removeAt(keyCmds, i)
          /\ IF cursor < entries
             THEN /\ onKeyCalls' = onKeyCalls \cup {keyCmds[i]}
                  /\ \E o \in {"ok", "hide", "err"} :
                        entries' = IF o = "hide" THEN entries - 1 ELSE entries
             ELSE UNCHANGED <<onKeyCalls, entries>>
    /\ UNCHANGED tblPc
    /\ UNCHANGED <<pollInterval, ticksScheduled, ticksReceived, reloadCmds, loads, pressed,
                   cursor, msgs, noteVars, histVars, loadVars, listVars, filterVars, execVars,
                   allVars, cacheVars, scopeVars, dataVars>>

NextTable ==
    \/ TableInit
    \/ TickMsg
    \/ WindowSizeMsg
    \/ \E k \in PressedKeys : KeyMsg(k)
    \/ RunReload
    \/ RunKeyCmd

SpecTable == InitTable /\ [][NextTable]_vars

(***************************************************************************)
(* SpecData: the data of the RefreshingDataTable under the commands that   *)
(* Update returns.  The event loop runs every command on its own, so a     *)
(* reload command and a key command interleave at the data mutex.          *)
(***************************************************************************)
\* why a command runs: the reload of a tick, the reload of the key "r", the
\* key command of another key
CmdKinds == {"tick", "r", "enter"}

\* what Actor.Load can return: up to MaxRows entries, each of them once
LoadResults ==
    {s \in UNION {[1..n -> 1..MaxRows] : n \in 0..MaxRows} :
        \A i, j \in DOMAIN s : i # j => s[i] # s[j]}

\* lo.Map(entries, ...): the row of an entry holds what the column extracts
rowsOf(es) == [i \in DOMAIN es |-> <<"cell", es[i]>>]

\* if len(t.data.entries) > 0 { t.table.SetRows(...) }
setRows(rows, es) == IF Len(es) > 0 THEN rowsOf(es) ELSE rows

\* NewRefreshingDataTable has loaded the entries for the first time, into a
\* table without rows
InitData ==
    /\ dEntries \in LoadResults
    /\ dRows = setRows(<<>>, dEntries)
    /\ dMu = 0
    /\ dPc = [p \in Cmds |-> "idle"]
    /\ dKind = [p \in Cmds |-> "none"]
    /\ dCur = [p \in Cmds |-> 0]
    /\ dEnt = [p \in Cmds |-> 0]
    /\ dMsg = [p \in Cmds |-> "none"]
    /\ dErr = [p \in Cmds |-> "nil"]
    /\ dPanic = FALSE
    /\ NoteIdle
    /\ HistIdle
    /\ LoadIdle
    /\ ListIdle
    /\ FilterIdle
    /\ ExecIdle
    /\ AllIdle
    /\ CacheIdle
    /\ ScopeIdle
    /\ TableIdle

\* Update returns t.reloadCmd() for a tick and for "r" and t.keyCmd(...) for
\* another key, and the event loop starts the command
StartCmd(p, kind) ==
    /\ ~dPanic
    /\ dPc[p] = "idle"
    /\ dKind' = [dKind EXCEPT ![p] = kind]
    /\ dPc' = [dPc EXCEPT ![p] = IF kind = "enter" THEN "key" ELSE "reload"]
    /\ dMsg' = [dMsg EXCEPT ![p] = "none"]
    /\ dErr' = [dErr EXCEPT ![p] = "nil"]
    /\ UNCHANGED <<dEntries, dRows, dMu, dCur, dEnt, dPanic, noteVars, histVars, loadVars, listVars, filterVars,
                   execVars, allVars, cacheVars, scopeVars, tableVars>>

\* a reload that calls Actor.Load without the data mutex
ReloadLockFree(p) ==
    /\ ~dPanic
    /\ dPc[p] = "reload"
    /\ dPc' = [dPc EXCEPT ![p] = "load"]
    /\ UNCHANGED <<dEntries, dRows, dMu, dKind, dCur, dEnt, dMsg, dErr, dPanic, noteVars, histVars, loadVars, listVars, filterVars,
                   execVars, allVars, cacheVars, scopeVars, tableVars>>

\* reload: t.data.mu.Lock(), after which Actor.Load is called
ReloadLock(p) ==
    /\ ~dPanic
    /\ dPc[p] = "reload"
    /\ dMu = 0
    /\ dMu' = p
    /\ dPc' = [dPc EXCEPT ![p] = "load"]
    /\ UNCHANGED <<dEntries, dRows, dKind, dCur, dEnt, dMsg, dErr, dPanic, noteVars, histVars, loadVars, listVars, filterVars,
                   execVars, allVars, cacheVars, scopeVars, tableVars>>

\* reload from the return of Actor.Load to the deferred Unlock, and the
\* return of reloadCmd: the function tea.Quit on an error, the message of
\* tea.ClearScreen() after an update
ReloadFinish(p) ==
    /\ ~dPanic
    /\ dPc[p] = "load"
    /\ \/ /\ dErr' = [dErr EXCEPT ![p] = "load entries"]
          /\ dMsg' = [dMsg EXCEPT ![p] = "tea.Quit"]
          /\ UNCHANGED <<dEntries, dRows>>
       \/ \E es \in LoadResults :
             /\ dEntries' = es
             /\ dRows' = setRows(dRows, es)
             /\ dMsg' = [dMsg EXCEPT ![p] = "clearScreenMsg"]
             /\ UNCHANGED dErr
    /\ dMu' = 0
    /\ dPc' = [dPc EXCEPT ![p] = "idle"]
    /\ dKind' = [dKind EXCEPT ![p] = "none"]
    /\ UNCHANGED <<dCur, dEnt, dPanic, noteVars, histVars, loadVars, listVars, filterVars,
                   execVars, allVars, cacheVars, scopeVars, tableVars>>

\* keyCmd: cursor := t.table.Cursor(); entry, ok := t.entry(cursor), which
\* holds the data mutex from its first to its last statement
KeyEntry(p) ==
    /\ ~dPanic
    /\ dPc[p] = "key"
    /\ dMu = 0
    /\ \E c \in 0..(MaxRows - 1) :
          IF c < Len(dEntries)
          THEN /\ dCur' = [dCur EXCEPT ![p] = c]
               /\ dEnt' = [dEnt EXCEPT ![p] = dEntries[c + 1]]
               /\ dPc' = [dPc EXCEPT ![p] = "onKey"]
               /\ UNCHANGED <<dMsg, dKind>>
          ELSE /\ dPc' = [dPc EXCEPT ![p] = "idle"]
               /\ dKind' = [dKind EXCEPT ![p] = "none"]
               /\ dMsg' = [dMsg EXCEPT ![p] = "nil"]
               /\ UNCHANGED <<dCur, dEnt>>
    /\ UNCHANGED <<dEntries, dRows, dMu, dErr, dPanic, noteVars, histVars, loadVars, listVars, filterVars,
                   execVars, allVars, cacheVars, scopeVars, tableVars>>

\* keyCmd: hide, err := t.Actor.OnKey(key, cursor, entry), called without
\* the data mutex
KeyOnKey(p) ==
    /\ ~dPanic
    /\ dPc[p] = "onKey"
    /\ \E o \in {"ok", "hide", "err"} :
          /\ dPc' = [dPc EXCEPT ![p] = IF o = "hide" THEN "hide" ELSE "idle"]
          /\ dKind' = [dKind EXCEPT ![p] = IF o = "hide" THEN @ ELSE "none"]
          /\ dErr' = [dErr EXCEPT ![p] = IF o = "err" THEN "on key" ELSE @]
          /\ dMsg' = [dMsg EXCEPT ![p] = IF o = "err" THEN "tea.Quit"
                                         ELSE IF o = "ok" THEN "nil" ELSE @]
    /\ UNCHANGED <<dEntries, dRows, dMu, dCur, dEnt, dPanic, noteVars, histVars, loadVars, listVars, filterVars,
                   execVars, allVars, cacheVars, scopeVars, tableVars>>

\* keyCmd: t.hide(cursor), which holds the data mutex; append(entries[:idx],
\* entries[idx+1:]...) panics for an idx that is no index of the entries
KeyHide(p) ==
    /\ ~dPanic
    /\ dPc[p] = "hide"
    /\ dMu = 0
    /\ IF dCur[p] < Len(dEntries)
       THEN /\ dEntries' = removeAt(dEntries, dCur[p] + 1)
            /\ dRows' = setRows(dRows, removeAt(dEntries, dCur[p] + 1))
            /\ dPc' = [dPc EXCEPT ![p] = "idle"]
            /\ dKind' = [dKind EXCEPT ![p] = "none"]
            /\ dMsg' = [dMsg EXCEPT ![p] = "nil"]
            /\ UNCHANGED dPanic
       ELSE /\ dPanic' = TRUE
            /\ UNCHANGED <<dEntries, dRows, dPc, dKind, dMsg>>
    /\ UNCHANGED <<dMu, dCur, dEnt, dErr, noteVars, histVars, loadVars, listVars, filterVars,
                   execVars, allVars, cacheVars, scopeVars, tableVars>>

NextData ==
    \/ \E p \in Cmds, kind \in CmdKinds : StartCmd(p, kind)
    \/ \E p \in Cmds : ReloadLock(p)
    \/ \E p \in Cmds : ReloadFinish(p)
    \/ \E p \in Cmds : KeyEntry(p)
    \/ \E p \in Cmds : KeyOnKey(p)
    \/ \E p \in Cmds : KeyHide(p)

SpecData == InitData /\ [][NextData]_vars

(***************************************************************************)
(* Properties of the history pipeline (SpecHist).                          *)
(***************************************************************************)
\* the history task has just returned the history and the threads
HistoryLoaded == hPc = "filter"

\* C3: the sequence returned by assembleHistory is ordered by non-decreasing
\* timestamp and holds no two equal events.
HistorySortedWithoutDuplicates ==
    HistoryLoaded =>
        \A i, j \in DOMAIN history :
            i < j => /\ history[i].Timestamp <= history[j].Timestamp
                     /\ history[i] # history[j]

\* a history of four events or more, some of them with equal timestamps and
\* some with different ones, has been returned
HistorySortedWitness ==
    /\ HistoryLoaded
    /\ Len(history) >= 4
    /\ \E i, j \in DOMAIN history : i # j /\ history[i].Timestamp = history[j].Timestamp
    /\ \E i, j \in DOMAIN history : history[i].Timestamp < history[j].Timestamp

\* C4: every replied event and every thread-resolved event of the returned
\* history comes after a commented event with the same object id.
RepliesFollowTheirRoot ==
    HistoryLoaded =>
        \A k \in DOMAIN history :
            history[k].Type \in {EventTypeReplied, EventTypeThreadResolved} =>
                \E j \in 1..(k - 1) :
                    /\ history[j].Type = EventTypeCommented
                    /\ history[j].ObjectID = history[k].ObjectID

\* C5: every order of the collected events that the final sort can produce
\* yields the same threads.
ThreadsIndependentOfTieOrder ==
    HistoryLoaded =>
        \A h1, h2 \in sortEvents(evSet) : buildThreads(h1) = buildThreads(h2)

\* C6: when buildThreads processes a thread-resolved event whose thread
\* exists, the thread keeps its nodes and all of them are resolved afterwards.
ResolutionMarksWholeChain ==
    HistoryLoaded =>
        \A k \in DOMAIN history :
            LET ev == history[k]
                before == threadsAfter(history, k - 1)
                after == threadsAfter(history, k)
            IN  (ev.Type = EventTypeThreadResolved /\ ev.ObjectID \in DOMAIN before) =>
                    /\ Len(after[ev.ObjectID]) = Len(before[ev.ObjectID])
                    /\ \A i \in DOMAIN after[ev.ObjectID] : after[ev.ObjectID][i].Resolved

\* a thread-resolved event met a thread of a root and two unresolved replies,
\* and the returned thread has its three nodes resolved
ResolutionMarksWholeChainWitness ==
    /\ HistoryLoaded
    /\ \E k \in DOMAIN history :
        LET ev == history[k]
            before == threadsAfter(history, k - 1)
        IN  /\ ev.Type = EventTypeThreadResolved
            /\ ev.ObjectID \in DOMAIN before
            /\ Len(before[ev.ObjectID]) = 3
            /\ \A i \in 1..3 : ~before[ev.ObjectID][i].Resolved
            /\ ev.ObjectID \in DOMAIN threads
            /\ Len(threads[ev.ObjectID]) = 3
            /\ \A i \in 1..3 : threads[ev.ObjectID][i].Resolved

\* The notes c and r are all the notes of the merge request: a comment and a
\* later reply on the same position, and the thread was resolved after the
\* reply by the comment's author; one of the two notes or both carry the
\* resolved marker.
CommentReplyResolution(c, r) ==
    /\ apiNotes = {c, r}
    /\ c.Resolvable /\ r.Resolvable
    /\ threadPos(c) = threadPos(r)
    /\ c.CreatedAt < r.CreatedAt
    /\ c.Resolved \/ r.Resolved
    /\ \A n \in {c, r} :
        n.Resolved => n.ResolvedBy = c.Author /\ n.ResolvedAt > r.CreatedAt

\* the one thread of a comment c and its reply r, both resolved
ResolvedThreadOf(c, r) ==
    threadPos(c) :> << [Author |-> [Username |-> c.Author], CreatedAt |-> c.CreatedAt,
                        Resolved |-> TRUE],
                       [Author |-> [Username |-> r.Author], CreatedAt |-> r.CreatedAt,
                        Resolved |-> TRUE] >>

\* the types of the events of h, in order
TypesOf(h) == [k \in DOMAIN h |-> h[k].Type]

\* C7 as stated: for a comment, a reply and a resolution, the history is
\* exactly [commented, replied, thread-resolved] and the threads are the one
\* chain comment -> reply with both nodes resolved.
EndToEndThreeEvents ==
    HistoryLoaded =>
        \A c, r \in apiNotes :
            CommentReplyResolution(c, r) =>
                /\ TypesOf(history) =
                      <<EventTypeCommented, EventTypeReplied, EventTypeThreadResolved>>
                /\ threads = ResolvedThreadOf(c, r)

\* C7, amended: the history is the commented event, the replied event and
\* then one thread-resolved event for each note that carries the resolved
\* marker (by the resolver, at the resolution time), so exactly three events
\* when one note carries it; the threads are the one chain comment -> reply
\* with both nodes resolved.
EndToEndEventPerMarker ==
    HistoryLoaded =>
        \A c, r \in apiNotes :
            CommentReplyResolution(c, r) =>
                LET marked == {n \in {c, r} : n.Resolved}
                IN  /\ Len(history) = 2 + Cardinality(marked)
                    /\ history[1].Type = EventTypeCommented
                    /\ history[1].Actor.Username = c.Author
                    /\ history[1].Timestamp = c.CreatedAt
                    /\ history[2].Type = EventTypeReplied
                    /\ history[2].Actor.Username = r.Author
                    /\ history[2].Timestamp = r.CreatedAt
                    /\ \A k \in 3..Len(history) :
                        /\ history[k].Type = EventTypeThreadResolved
                        /\ history[k].Actor.Username = c.Author
                        /\ history[k].Timestamp > r.CreatedAt
                    /\ {history[k].ID : k \in 3..Len(history)} =
                          {ToString(n.ID) \o "!resolved" : n \in marked}
                    /\ (Cardinality(marked) = 1 =>
                          TypesOf(history) = <<EventTypeCommented, EventTypeReplied,
                                               EventTypeThreadResolved>>)
                    /\ threads = ResolvedThreadOf(c, r)

\* a comment of one user, a reply of the other and a resolution marked on one
\* note only have been assembled into three events
EndToEndWitness ==
    /\ HistoryLoaded
    /\ \E c, r \in apiNotes :
        /\ CommentReplyResolution(c, r)
        /\ c.Author # r.Author
        /\ Cardinality({n \in {c, r} : n.Resolved}) = 1
        /\ Len(history) = 3
        /\ threads = ResolvedThreadOf(c, r)

\* the thread id is one of mine, unresolved, whose last comment is mine
MineUnresolvedLastMine(id) ==
    /\ threads[id][1].Author.Username = "me"
    /\ ~threads[id][1].Resolved
    /\ threads[id][Len(threads[id])].Author.Username = "me"

\* C10: with the without-my-unresolved-threads filter on, the item is
\* excluded iff it has a thread whose root is the current user's and
\* unresolved and whose last node is the current user's; otherwise it is kept.
FilterExcludesMyStalledThreads ==
    (hPc = "done" /\ reqWithout) =>
        /\ (prs = <<>>) <=> (\E id \in DOMAIN threads : MineUnresolvedLastMine(id))
        /\ (prs # <<>>) => (prs = <<assembled>>)

\* an item whose only unresolved thread of mine was last answered by another
\* user went through the filter and was kept
FilterKeepsAnsweredThreadWitness ==
    /\ hPc = "done"
    /\ reqWithout
    /\ prs = <<assembled>>
    /\ \E id \in DOMAIN threads :
        /\ threads[id][1].Author.Username = "me"
        /\ ~threads[id][1].Resolved
        /\ Len(threads[id]) >= 2
        /\ threads[id][Len(threads[id])].Author.Username = "other"

(***************************************************************************)
(* Properties of transformNote (SpecNote).                                 *)
(***************************************************************************)
\* the body says that the merge request was approved, or that it was unapproved
SaysApproved(body) ==
    Contains(body, ApprovedPattern) /\ ~Contains(body, UnapprovedPattern)
SaysUnapproved(body) == Contains(body, UnapprovedPattern)

\* the types of the events transformNote returned
ReturnedTypes == {tnOut.events[k].Type : k \in DOMAIN tnOut.events}

\* C8: a note whose body says "approved this merge request" becomes an
\* approved event, one whose body says "unapproved this merge request" an
\* unapproved event.
ApprovalNotesClassified ==
    tnPc = "done" =>
        /\ SaysApproved(note.Body) =>
              tnOut.transformed /\ EventTypeApproved \in ReturnedTypes
        /\ SaysUnapproved(note.Body) =>
              tnOut.transformed /\ EventTypeUnapproved \in ReturnedTypes

\* C9: a note is discarded only if it is not resolvable and its body matched
\* no approval pattern; a non-resolvable note whose body matches one still
\* yields an event.
DiscardedOnlyWithoutApproval ==
    tnPc = "done" =>
        /\ ~tnOut.transformed =>
              /\ ~note.Resolvable
              /\ ~Contains(note.Body, ApprovedPattern)
              /\ ~Contains(note.Body, UnapprovedPattern)
        /\ (/\ ~note.Resolvable
            /\ \/ Contains(note.Body, ApprovedPattern)
               \/ Contains(note.Body, UnapprovedPattern)) =>
              tnOut.transformed /\ tnOut.events # <<>>

(***************************************************************************)
(* Properties of loadPR (SpecLoad).                                        *)
(***************************************************************************)
\* C1: if one of the three fetches of loadPR failed, loadPR returns an error
\* and no item.
LoadPRAllOrNothing ==
    (lpPc = "returned" /\ \E t \in Tasks : fetched[t] = "failed") =>
        lpRet.err # "nil" /\ lpRet.pr = ZeroPR

(***************************************************************************)
(* Properties of the listing (SpecList).                                   *)
(***************************************************************************)
\* the assembly of some item of the page listed last returned an error
ItemFailed == \E i \in DOMAIN itemRet : itemRet[i] \notin {"running", "nil"}

\* C2: when the assembly of an item of a listed page returned an error,
\* Gitlab.ListPullRequests returns an error and a nil list, and
\* Service.ListPullRequests returns an error and no list.
ItemFailureFailsList ==
    /\ (lsPc \in {"engineReturned", "listed", "returned"} /\ ItemFailed) =>
           engRet.err # "nil" /\ engRet.prs = NilList
    /\ (lsPc = "returned" /\ ItemFailed) =>
           svcRet.err # "nil" /\ svcRet.prs = NilList

\* the service has returned after a page on which one item failed and
\* another was assembled, with an earlier page already accumulated
ItemFailureFailsListWitness ==
    /\ lsPc = "returned"
    /\ ItemFailed
    /\ \E i \in DOMAIN itemRet : itemRet[i] = "nil" /\ result[i] # ZeroItem
    /\ paginationEmpty
    /\ Len(acc.items) > 0

(***************************************************************************)
(* Properties of the filters (SpecFilter, SpecList).                       *)
(***************************************************************************)
FiltersReturned == fPc = "returned"

\* the names of the filters the request sets
SetFilters == {FilterOrder[k] : k \in {j \in DOMAIN FilterOrder : isSet(FilterOrder[j], fReq)}}

\* the item is in the list returned
Kept(pr) == \E k \in DOMAIN fOut : fOut[k] = pr

\* the usernames of the approvers and of the requested reviewers of an item
ApproversOf(pr) == {pr.Approvals.By[k].Username : k \in DOMAIN pr.Approvals.By}
RequestedOf(pr) ==
    {pr.Approvals.RequestedFrom[k].Username : k \in DOMAIN pr.Approvals.RequestedFrom}

\* the current user is a requested reviewer of the item and has not approved it
RequestedNotApproved(pr) ==
    me.Username \in RequestedOf(pr) /\ me.Username \notin ApproversOf(pr)

\* the condition of the approval-rules filter for the requested boolean
SatisfiesOrAwaitsMe(pr) ==
    pr.Approvals.SatisfiesRules = fReq.SatisfiesApprovalRules[1]
    \/ RequestedNotApproved(pr)

\* C11: with the satisfies-approval-rules filter set to b, an item is kept
\* iff its satisfies-rules flag equals b or the current user is a requested
\* reviewer of it who has not approved it (kept only if, whatever else is
\* set; kept iff, when nothing else is set).
SatisfiesFilterKeeps ==
    (FiltersReturned /\ fReq.SatisfiesApprovalRules # NilBool) =>
        \A k \in DOMAIN fPrs :
            /\ Kept(fPrs[k]) => SatisfiesOrAwaitsMe(fPrs[k])
            /\ SetFilters = {"satisfies approval rules"} =>
                   (Kept(fPrs[k]) <=> SatisfiesOrAwaitsMe(fPrs[k]))

\* the filter, set to false alone, has kept an item whose flag is true
\* because the current user is awaited, and the list is returned
SatisfiesFilterKeepsWitness ==
    /\ FiltersReturned
    /\ SetFilters = {"satisfies approval rules"}
    /\ fReq.SatisfiesApprovalRules = <<FALSE>>
    /\ \E k \in DOMAIN fPrs :
           fPrs[k].Approvals.SatisfiesRules /\ RequestedNotApproved(fPrs[k]) /\ Kept(fPrs[k])

\* C12 (as stated): with satisfies-approval-rules requested as true, an item
\* of which the current user is a requested reviewer who has not approved is
\* excluded from the result.
RequestedReviewerExcluded ==
    (FiltersReturned /\ fReq.SatisfiesApprovalRules = <<TRUE>>) =>
        \A k \in DOMAIN fPrs : RequestedNotApproved(fPrs[k]) => ~Kept(fPrs[k])

\* C12 (amended): with satisfies-approval-rules requested as true and no
\* other filter set, an item of which the current user is a requested
\* reviewer who has not approved is kept, whatever its satisfies-rules flag.
RequestedReviewerKept ==
    (FiltersReturned /\ fReq.SatisfiesApprovalRules = <<TRUE>>
       /\ SetFilters = {"satisfies approval rules"}) =>
        \A k \in DOMAIN fPrs : RequestedNotApproved(fPrs[k]) => Kept(fPrs[k])

\* the filter, set to true alone, has kept an item whose flag is false and
\* that awaits the current user
RequestedReviewerKeptWitness ==
    /\ FiltersReturned
    /\ fReq.SatisfiesApprovalRules = <<TRUE>>
    /\ SetFilters = {"satisfies approval rules"}
    /\ \E k \in DOMAIN fPrs :
           ~fPrs[k].Approvals.SatisfiesRules /\ RequestedNotApproved(fPrs[k]) /\ Kept(fPrs[k])

\* C13: with the approved-by-me filter set to b, an item is kept iff (the
\* current user is among its approvers) equals b.
ApprovedByMeFilterKeeps ==
    (FiltersReturned /\ fReq.ApprovedByMe # NilBool) =>
        \A k \in DOMAIN fPrs :
            LET mine == (me.Username \in ApproversOf(fPrs[k])) = fReq.ApprovedByMe[1]
            IN  /\ Kept(fPrs[k]) => mine
                /\ SetFilters = {"approved by me"} => (Kept(fPrs[k]) <=> mine)

\* the filter, set to false alone, has kept one item and removed another
ApprovedByMeFilterWitness ==
    /\ FiltersReturned
    /\ SetFilters = {"approved by me"}
    /\ fReq.ApprovedByMe = <<FALSE>>
    /\ \E k \in DOMAIN fPrs : Kept(fPrs[k]) /\ me.Username \notin ApproversOf(fPrs[k])
    /\ \E k \in DOMAIN fPrs : ~Kept(fPrs[k]) /\ me.Username \in ApproversOf(fPrs[k])

\* the elements of a slice
Elems(l) == {l[k] : k \in DOMAIN l}

\* the include/exclude condition on a key
IncludedNotExcluded(f, key) ==
    /\ Len(f.Include) > 0 => key \in Elems(f.Include)
    /\ Len(f.Exclude) > 0 => key \notin Elems(f.Exclude)

\* the names of the author filters and of the project-path filters
KeyFilters ==
    {"authors include", "authors exclude", "project paths include", "project paths exclude"}

\* C14: an item is kept only if its author is in the non-empty include set
\* and not in the non-empty exclude set of the author filter, and likewise
\* its project path for the project-path filter; an item whose key is in
\* both sets is excluded; with no other filter set, such items are all kept.
KeyFiltersKeep ==
    FiltersReturned =>
        \A k \in DOMAIN fPrs :
            LET pr == fPrs[k]
                ok == /\ IncludedNotExcluded(fReq.Authors, pr.Author.Username)
                      /\ IncludedNotExcluded(fReq.ProjectPaths, pr.Project.FullPath)
            IN  /\ Kept(pr) => ok
                /\ SetFilters \subseteq KeyFilters => (Kept(pr) <=> ok)
                /\ (pr.Author.Username \in Elems(fReq.Authors.Include)
                      /\ pr.Author.Username \in Elems(fReq.Authors.Exclude)) => ~Kept(pr)
                /\ (pr.Project.FullPath \in Elems(fReq.ProjectPaths.Include)
                      /\ pr.Project.FullPath \in Elems(fReq.ProjectPaths.Exclude)) => ~Kept(pr)

\* only the author filter is set, with include and exclude sets, and of two
\* items the one whose author is in both sets was removed, the other kept
KeyFiltersWitness ==
    /\ FiltersReturned
    /\ SetFilters = {"authors include", "authors exclude"}
    /\ \E k \in DOMAIN fPrs :
           /\ fPrs[k].Author.Username \in Elems(fReq.Authors.Include)
           /\ fPrs[k].Author.Username \in Elems(fReq.Authors.Exclude)
           /\ ~Kept(fPrs[k])
    /\ \E k \in DOMAIN fPrs : Kept(fPrs[k])

\* C15: with no filter set, Service.ListPullRequests returns exactly the
\* list listPRs produced: same items, same order, nothing removed.
UnsetFiltersAreNoOps ==
    (lsPc = "returned" /\ ~lsWithout /\ listed.err = "nil") =>
        svcRet = [prs |-> listed.prs, err |-> "nil"]

\* the service has returned a list of several pages unfiltered, holding an
\* item that the thread filter would remove
UnsetFiltersWitness ==
    /\ lsPc = "returned"
    /\ ~lsWithout
    /\ listed.err = "nil"
    /\ Len(svcRet.prs.items) > MaxPerPage
    /\ \E k \in DOMAIN svcRet.prs.items : ~withoutMyUnresolvedThreads(svcRet.prs.items[k])

\* the lists obtained by applying the set filters in every order
AllOrders ==
    LET R[S \in SUBSET SetFilters] ==
            IF S = {} THEN {fPrs}
            ELSE UNION {{applyFilter(f, fReq, r) : r \in R[S \ {f}]} : f \in S}
    IN  R[SetFilters]

\* C16: the list returned holds the listed items that satisfy every set
\* predicate, and every order of applying the set filters gives that list.
FiltersConjoinInAnyOrder ==
    FiltersReturned =>
        /\ fOut = SelectSeq(fPrs, LAMBDA pr : \A n \in SetFilters : keeps(n, fReq, pr))
        /\ AllOrders = {fOut}

\* every filter is set, and of two items one passed them all
FiltersConjoinWitness ==
    /\ FiltersReturned
    /\ Cardinality(SetFilters) = Len(FilterOrder)
    /\ Len(fPrs) = 2
    /\ Len(fOut) = 1

(***************************************************************************)
(* Properties of List.Execute (SpecExec).                                  *)
(***************************************************************************)
\* the command has no state, no label and no author filter, and not both a
\* page and a page size
NoBackendFilter ==
    /\ cmdOpts.State = ""
    /\ cmdOpts.Labels.Include = <<>> /\ cmdOpts.Labels.Exclude = <<>>
    /\ cmdOpts.Authors.Include = <<>> /\ cmdOpts.Authors.Exclude = <<>>
    /\ ~(cmdOpts.Pagination.Page # 0 /\ cmdOpts.Pagination.PerPage # 0)

\* C17: a list command without a backend filter never calls PrepareService
\* and makes no remote call, and Execute returns a validation error.
ValidationBeforeRemoteCalls ==
    (xPc # "idle" /\ NoBackendFilter) =>
        /\ ~prepared
        /\ remoteCalls = <<>>
        /\ xPc \in {"call", "returned"}
        /\ xPc = "returned" =>
               xErr = "validate backend filters: at least one backend-side filter must be present"

\* Execute has returned for a command with a page but no page size
ValidationWitness ==
    /\ xPc = "returned"
    /\ NoBackendFilter
    /\ cmdOpts.Pagination.Page # 0

(***************************************************************************)
(* Properties of the pagination of the listing (SpecList).                 *)
(***************************************************************************)
\* the concatenation of the pages
RECURSIVE Concat(_)
Concat(pages) == IF pages = <<>> THEN <<>> ELSE Head(pages) \o Concat(Tail(pages))

\* C18: with an empty pagination the engine is called for the pages 1, 2,
\* ... with page size 100, and the service lists the concatenation of the
\* pages up to the first empty one; with explicit bounds the engine is
\* called exactly once, with those bounds, and its page is what is filtered.
ListsAllOrOnePage ==
    /\ paginationEmpty =>
        /\ \A k \in DOMAIN engCalls : engCalls[k] = [Page |-> k, PerPage |-> 100]
        /\ (lsPc \in {"listed", "returned"} /\ listed.err = "nil") =>
              /\ Len(engCalls) = Len(engPages)
              /\ \A k \in DOMAIN engPages : (engPages[k] = <<>>) <=> (k = Len(engPages))
              /\ listed.prs.items = Concat(engPages)
        /\ (lsPc = "returned" /\ listed.err = "nil") =>
              svcRet.prs.items = applyFilters(FilterOrder, lsReq, Concat(engPages))
    /\ ~paginationEmpty =>
        /\ Len(engCalls) <= 1
        /\ \A k \in DOMAIN engCalls : engCalls[k] = lsPagination
        /\ lsPc = "returned" => Len(engCalls) = 1
        /\ (lsPc = "returned" /\ listed.err = "nil") =>
              svcRet.prs.items = applyFilters(FilterOrder, lsReq, engPages[1])

\* the service has returned the items of two pages after a third, empty one
ListsAllPagesWitness ==
    /\ lsPc = "returned"
    /\ paginationEmpty
    /\ Len(engCalls) = 3
    /\ svcRet.err = "nil"
    /\ Len(svcRet.prs.items) > Len(engPages[1])

(***************************************************************************)
(* Properties of ListAll (SpecAll, SpecAllFair).                           *)
(***************************************************************************)
\* the number of non-empty pages before the first empty one
RECURSIVE NonEmptyPrefix(_)
NonEmptyPrefix(sizes) ==
    IF sizes = <<>> \/ Head(sizes) = 0 THEN 0 ELSE 1 + NonEmptyPrefix(Tail(sizes))

\* no call fails up to the one that returns the first empty page
FetchesUpToEmptyPage == laFailAt = 0 \/ laFailAt > NonEmptyPrefix(laSizes) + 1

\* ListAll has returned, after k + 1 calls for the pages startPage, ...,
\* startPage + k, the items of the k non-empty pages in page order
ReturnedAllPages ==
    LET k == NonEmptyPrefix(laSizes)
    IN  /\ laPc = "returned"
        /\ laCalls = [j \in 1..(k + 1) |-> laStart + j - 1]
        /\ laRet.err = NilErr
        /\ laRet.result.items =
               Concat([j \in 1..k |-> [i \in 1..laSizes[j] |-> <<laStart + j - 1, i>>]])

\* C19: when the pages from startPage on are non-empty up to startPage+k-1
\* and page startPage+k is empty, ListAll terminates, having called the
\* fetch function k+1 times for consecutive pages, and returns the
\* concatenation of the k non-empty pages in page order.
ListAllReturnsAllPages ==
    (laPc = "loop" /\ FetchesUpToEmptyPage) ~> ReturnedAllPages

\* pages of sizes [2, 2, 0]: 4 items returned after 3 calls
ListAllWitness ==
    /\ laPc = "returned"
    /\ SubSeq(laSizes, 1, 3) = <<2, 2, 0>>
    /\ Len(laRet.result.items) = 4
    /\ Len(laCalls) = 3
    /\ laRet.err = NilErr

\* C20: when the fetch function fails at page p, ListAll fetches no later
\* page and returns a nil result with an ErrAtPage whose Page is p and
\* which unwraps to the fetch error.
ListAllFailsAtPage ==
    \A j \in DOMAIN laCalls :
        j = laFailAt =>
            /\ Len(laCalls) = j
            /\ laPc = "returned"
            /\ laRet.result = NilList
            /\ Len(laRet.err) = 1
            /\ laRet.err[1].Page = laCalls[j]
            /\ laCalls[j] = laStart + j - 1
            /\ Unwrap(laRet.err[1]) = "fetch failed"

\* the fetch function failed at the third page, after two pages of items
ListAllFailsWitness ==
    /\ laPc = "returned"
    /\ laFailAt = 3
    /\ Len(laCalls) = 3
    /\ Len(laResult.items) > 1

(***************************************************************************)
(* Claims about the projects cache (SpecCache).                            *)
(***************************************************************************)
\* the cache holds an entry for pid that has not expired at time t
Cached(pid, t) ==
    /\ pid \in DOMAIN projectsCache.items
    /\ t <= projectsCache.items[pid].expiresAt

\* the cache holds an entry for pid that has expired at time t
Expired(pid, t) ==
    /\ pid \in DOMAIN projectsCache.items
    /\ t > projectsCache.items[pid].expiresAt

\* C21: getProject for an id that is cached and unexpired returns the cached
\* value without a remote lookup; on a miss it makes exactly one remote
\* lookup and, if that succeeds, stores the project under the id with an
\* expiry one hour ahead, so a lookup within that hour finds it.
GetProjectUsesCache ==
    [][\A c \in Callers :
          /\ (gpPc[c] = "get" /\ gpPc'[c] # "get") =>
                IF Cached(gpPid[c], now)
                THEN /\ gpPc'[c] = "returned"
                     /\ gpRet'[c] = [p |-> projectsCache.items[gpPid[c]].value, err |-> "nil"]
                     /\ projectCalls' = projectCalls
                     /\ gpFetches'[c] = 0
                ELSE /\ gpPc'[c] = "fetch"
                     /\ projectCalls' = projectCalls
          /\ (gpPc[c] = "fetch" /\ gpPc'[c] # "fetch") =>
                /\ projectCalls' = Append(projectCalls, gpPid[c])
                /\ gpFetches'[c] = 1
                /\ gpPc'[c] = "returned" => gpRet'[c].err # "nil"
          /\ (gpPc[c] = "set" /\ gpPc'[c] # "set") =>
                /\ projectCalls' = projectCalls
                /\ gpRet'[c] = [p |-> gpVal[c], err |-> "nil"]
                /\ gpPid[c] \in DOMAIN projectsCache'.items
                /\ projectsCache'.items[gpPid[c]] =
                      [value |-> gpVal[c], expiresAt |-> now + Hour]]_vars

\* a call has returned, without a remote lookup, a project that an earlier
\* call of this run fetched and stored
CachedLookupWitness ==
    \E c \in Callers :
       /\ gpPc[c] = "returned"
       /\ gpFetches[c] = 0
       /\ gpRet[c].err = "nil"
       /\ gpRet[c].p >= 1

\* the cached id used the longest ago
LeastRecentlyUsed ==
    CHOOSE k \in DOMAIN projectsCache.items :
       \A j \in DOMAIN projectsCache.items : lastUsed[k] <= lastUsed[j]

LastWriteWins ==
    \A pid \in DOMAIN lastWrite :
       pid \in DOMAIN projectsCache.items => projectsCache.items[pid].value = lastWrite[pid]

\* two calls for the same id have each made a remote lookup, both have
\* returned, and the cache holds the project of the earlier lookup, stored last
DuplicateFetchWitness ==
    /\ gpPid[1] = gpPid[2]
    /\ gpPc[1] = "returned" /\ gpPc[2] = "returned"
    /\ gpFetches[1] = 1 /\ gpFetches[2] = 1
    /\ gpRet[1].err = "nil" /\ gpRet[2].err = "nil"
    /\ gpVal[1] < gpVal[2]
    /\ projectsCache.items[gpPid[1]].value = gpVal[1]

(***************************************************************************)
(* Claims about the cancellation scopes (SpecScope).                       *)
(***************************************************************************)
\* C24: when a sub-fetch of an item has failed and its task has returned, the
\* context shared by the sub-fetches of that item is cancelled, and once the
\* loadPR of that item has returned the context shared by all items of the
\* listing is cancelled, so every sub-fetch of a sibling item still to run
\* runs under a cancelled context.
FailureCancelsScopes ==
    \A i \in Items, t \in Tasks :
       (sFetched[i][t] = "failed" /\ sPc[i][t] = "done") =>
          /\ sItemCtx[i] = "cancelled"
          /\ sItemPc[i] = "returned" =>
                /\ sListCtx = "cancelled"
                /\ \A j \in Items, u \in Tasks : sPc[j][u] = "start" => Cancelled(j)

(***************************************************************************)
(* Further claims about buildThreads (SpecHist) and transformNote          *)
(* (SpecNote).                                                             *)
(***************************************************************************)
\* event k of the history is a reply or a resolution that finds no chain
Orphan(k) ==
    /\ history[k].Type \in {EventTypeReplied, EventTypeThreadResolved}
    /\ history[k].ObjectID \notin DOMAIN threadsAfter(history, k - 1)

\* from event k on, with the chains th built so far, every reply or resolution
\* that finds no chain leaves the chains as they are
RECURSIVE OrphansLeaveChains(_, _)
OrphansLeaveChains(th, k) ==
    \/ k > Len(history)
    \/ LET next == processEvent(th, history[k])
       IN  /\ (history[k].Type \in {EventTypeReplied, EventTypeThreadResolved}
               /\ history[k].ObjectID \notin DOMAIN th) => next = th
           /\ OrphansLeaveChains(next, k + 1)

\* C25: a replied or thread-resolved event whose object id has no chain when
\* it is processed leaves the chains as they are, and the other events are
\* still processed: every commented event has its chain in the result.
OrphanEventsSkipped ==
    HistoryLoaded =>
        /\ OrphansLeaveChains(<<>>, 1)
        /\ \A k \in DOMAIN history :
              history[k].Type = EventTypeCommented => history[k].ObjectID \in DOMAIN threads

\* a history in which a reply found no chain and a later commented event
\* started the chain of the same object id, returned with that chain of one node
OrphanSkippedWitness ==
    /\ HistoryLoaded
    /\ \E k, j \in DOMAIN history :
        /\ k < j
        /\ Orphan(k)
        /\ history[k].Type = EventTypeReplied
        /\ history[j].Type = EventTypeCommented
        /\ history[j].ObjectID = history[k].ObjectID
        /\ Len(threads[history[j].ObjectID]) = 1

\* the note has been transformed into events
NoteTransformed == tnPc = "done" /\ tnOut.transformed

\* C26: for a note with the resolved marker that yields a thread event,
\* transformNote also returns a thread-resolved event: its id is the id of the
\* thread event followed by "!resolved", its actor the resolver of the note,
\* its timestamp the resolution time, its object id that of the thread event.
ResolvedEventEmitted ==
    (NoteTransformed /\ note.Resolved) =>
        /\ Len(tnOut.events) = 2
        /\ tnOut.events[1].Type \in {EventTypeCommented, EventTypeReplied}
        /\ tnOut.events[2].Type = EventTypeThreadResolved
        /\ tnOut.events[2].ID = tnOut.events[1].ID \o "!resolved"
        /\ tnOut.events[2].Actor = [Username |-> note.ResolvedBy]
        /\ tnOut.events[2].Timestamp = note.ResolvedAt
        /\ tnOut.events[2].ObjectID = tnOut.events[1].ObjectID
        /\ tnOut.events[2].ObjectType = ObjectTypeComment

\* a note of one user resolved by the other one has been transformed into a
\* reply and its resolution
ResolvedEventWitness ==
    /\ NoteTransformed
    /\ note.Resolved
    /\ note.ResolvedBy # note.Author
    /\ ~note.System
    /\ Len(tnOut.events) = 2
    /\ tnOut.events[1].Type = EventTypeReplied

\* C27: every commented or replied event that transformNote returns for a
\* system note has the system user as its actor, whoever the raw author is.
SystemNotesBySystemUser ==
    (tnPc = "done" /\ note.System) =>
        \A i \in DOMAIN tnOut.events :
            tnOut.events[i].Type \in {EventTypeCommented, EventTypeReplied} =>
                tnOut.events[i].Actor = [Username |-> "system"]

\* a system note with a raw author has been transformed into a commented event
SystemNoteWitness ==
    /\ tnPc = "done"
    /\ note.System
    /\ note.Author = "other"
    /\ Len(tnOut.events) >= 1
    /\ tnOut.events[1].Type = EventTypeCommented
    /\ tnOut.events[1].Actor = SystemUser

(***************************************************************************)
(* Claims about the refreshing table (SpecTable).                          *)
(***************************************************************************)
\* the commands or loads of seq that a tick caused
TickCount(seq) == Len(SelectSeq(seq, LAMBDA c : c = "tick"))

\* C28: with a poll interval of 0 no tick is ever scheduled or received and
\* Actor.Load is called only by the initial load and for the reload key; with
\* another poll interval every tick received returns one reload command, which
\* calls Actor.Load once, and schedules one next tick.
PollingByInterval ==
    [][/\ pollInterval = 0 =>
             /\ ticksScheduled' = 0
             /\ ticksReceived' = 0
             /\ \A i \in DOMAIN loads' : loads'[i] \in {"initial", "key"}
       /\ ticksReceived' # ticksReceived =>
             /\ pollInterval # 0
             /\ ticksReceived' = ticksReceived + 1
             /\ reloadCmds' = Append(reloadCmds, "tick")
             /\ ticksScheduled' = ticksScheduled
       /\ Len(loads') # Len(loads) =>
             /\ Len(loads') = Len(loads) + 1
             /\ Len(reloadCmds') = Len(reloadCmds) - 1
       /\ TickCount(loads') + TickCount(reloadCmds') = ticksReceived'
       /\ pollInterval # 0 => ticksScheduled' = 1]_vars

\* a polling table has received two ticks, has reloaded for both of them and
\* waits for the next tick
PollingWitness ==
    /\ pollInterval # 0
    /\ ticksReceived = 2
    /\ TickCount(loads) = 2
    /\ ticksScheduled = 1
    /\ tblPc = "running"

\* C29: Actor.OnKey is never called, and no key command is ever returned, for
\* "r", "q" or "ctrl+c", nor for a key bound to the navigation of the table.
OnKeyNeverForTableKeys ==
    /\ onKeyCalls \cap ({"r", "q", "ctrl+c", "c+ctrl"} \cup NavigationKeys) = {}
    /\ \A i \in DOMAIN keyCmds :
          keyCmds[i] \notin {"r", "q", "ctrl+c", "c+ctrl"} \cup NavigationKeys

\* the reload key, a navigation key and enter have been pressed, and OnKey
\* has been called for enter alone
OnKeyWitness ==
    /\ {"r", "up", "enter"} \subseteq pressed
    /\ onKeyCalls = {"enter"}

(***************************************************************************)
(* Further claims about List.Execute (SpecExec).                           *)
(***************************************************************************)
\* C30: whenever the list is loaded for a command without pagination, the
\* request the engine receives carries a state or a label to include or to
\* exclude.
BackendCriterionSent ==
    ("ListPullRequests" \in {remoteCalls[i] : i \in DOMAIN remoteCalls}
     /\ engineRequest(cmdOpts).Pagination = [Page |-> 0, PerPage |-> 0]) =>
        \/ engineRequest(cmdOpts).State # ""
        \/ ~Empty(engineRequest(cmdOpts).Labels)

(***************************************************************************)
(* Claims about the chains of an assembled history (SpecHist).             *)
(***************************************************************************)
\* C31: in every chain returned by buildThreads for a history returned by
\* assembleHistory, every node carries the resolved flag of the root.
ChainsUniformlyResolved ==
    HistoryLoaded =>
        \A oid \in DOMAIN threads :
            \A i \in DOMAIN threads[oid] :
                threads[oid][i].Resolved = threads[oid][1].Resolved

\* the object ids of the commented events of the history
CommentedIDs ==
    {history[k].ObjectID : k \in {j \in DOMAIN history : history[j].Type = EventTypeCommented}}

\* C32: the history returned by assembleHistory holds at most one commented
\* event per object id, and buildThreads returns a chain for exactly the
\* object ids that have a commented event, the notes without a position in
\* the chain of the empty object id.
OneChainPerCommentedID ==
    HistoryLoaded =>
        /\ \A j, k \in DOMAIN history :
              (/\ history[j].Type = EventTypeCommented
               /\ history[k].Type = EventTypeCommented
               /\ history[j].ObjectID = history[k].ObjectID) => j = k
        /\ DOMAIN threads = CommentedIDs

\* two notes without a position and one on a line of a file have been
\* assembled into a chain of two nodes for the empty object id and a chain
\* for the line
OneChainWitness ==
    /\ HistoryLoaded
    /\ Cardinality({n \in apiNotes : n.Resolvable /\ n.Position = NoPosition}) = 2
    /\ Cardinality(DOMAIN threads) = 2
    /\ "" \in DOMAIN threads
    /\ Len(threads[""]) = 2

(***************************************************************************)
(* Further claims about Gitlab.ListPullRequests (SpecList).                *)
(***************************************************************************)
\* C33: on success Gitlab.ListPullRequests returns at index i the item
\* assembled from merge request i of the raw listing, in whatever order the
\* tasks return, and a slot of result is written once, by the task of its
\* index as it returns.
ResultKeepsListingOrder ==
    [][/\ (lsPc = "tasks" /\ lsPc' = "tasks") =>
             \A i \in DOMAIN result :
                 result'[i] # result[i] =>
                     /\ itemRet[i] = "running"
                     /\ itemRet'[i] = "nil"
                     /\ result'[i].ID = <<page, i>>
                     /\ \A j \in DOMAIN result \ {i} : result'[j] = result[j]
       /\ (lsPc = "tasks" /\ lsPc' # "tasks" /\ engRet'.err = "nil") =>
             /\ Len(engRet'.prs.items) = Len(itemRet)
             /\ \A i \in DOMAIN itemRet : engRet'.prs.items[i].ID = <<page, i>>]_vars

\* a page of two merge requests has been returned, its two items different
ResultOrderWitness ==
    /\ lsPc = "engineReturned"
    /\ engRet.err = "nil"
    /\ Len(engRet.prs.items) = 2
    /\ engRet.prs.items[1].ID = <<page, 1>>
    /\ engRet.prs.items[2].ID = <<page, 2>>
    /\ engRet.prs.items[1].Threads # engRet.prs.items[2].Threads

(***************************************************************************)
(* Further claims about the projects cache (SpecCache).                    *)
(***************************************************************************)
\* C34: when the remote lookup fails, getProject returns the error and the
\* zero project and leaves the cache as it was, so a Get of that id that
\* would have missed before the failure misses after it.
FailedLookupStoresNothing ==
    [][\A c \in Callers :
          (gpPc[c] = "fetch" /\ gpPc'[c] = "returned") =>
              /\ gpRet'[c] = [p |-> ZeroProject, err |-> "call api"]
              /\ projectsCache' = projectsCache
              /\ cacheGet(projectsCache', gpPid[c], now).ok
                    = cacheGet(projectsCache, gpPid[c], now).ok]_vars

\* the lookup of an id never cached has failed for one caller, and a call for
\* the same id has made the remote lookup again, with success
FailedLookupWitness ==
    /\ gpPid[1] = MaxKeys + 1 /\ gpPid[2] = MaxKeys + 1
    /\ gpPc[1] = "returned" /\ gpRet[1].err = "call api"
    /\ gpPc[2] = "returned" /\ gpRet[2].err = "nil"
    /\ projectCalls = <<MaxKeys + 1, MaxKeys + 1>>
    /\ gpVal[2] = 2

HideRemovesPassedEntry ==
    [][\A p \in Cmds :
          (dPc[p] = "hide" /\ (dPc'[p] = "idle" \/ dPanic')) =>
              /\ ~dPanic'
              /\ dCur[p] < Len(dEntries)
              /\ dEntries[dCur[p] + 1] = dEnt[p]
              /\ dEntries' = removeAt(dEntries, dCur[p] + 1)]_vars

\* C36: after every reload that loaded the entries and after every hide the
\* rows of the table are the rows of the current entries, in their order, and
\* there is no row when there is no entry.
RowsMatchEntries ==
    [][\A p \in Cmds :
          \/ dPc[p] = "load" /\ dPc'[p] = "idle" /\ dErr'[p] = "nil"
          \/ dPc[p] = "hide" /\ dPc'[p] = "idle"
          => dRows' = rowsOf(dEntries')]_vars

\* C37: at most one command is inside Actor.Load, and that command holds the
\* data mutex, whatever reloads the ticks and the key "r" have started.
OneLoadInFlight ==
    /\ Cardinality({p \in Cmds : dPc[p] = "load"}) <= 1
    /\ \A p \in Cmds : dPc[p] = "load" => dMu = p

\* the reload of a tick is inside Actor.Load while the reload of the key "r"
\* waits for the data mutex
ReloadWaitsWitness ==
    /\ dKind[1] = "tick" /\ dPc[1] = "load"
    /\ dKind[2] = "r" /\ dPc[2] = "reload"
    /\ dMu = 1

\* C38: a reload whose Actor.Load fails leaves the entries and the rows as
\* they were and its command returns a quit message, and a reload changes the
\* entries only when Actor.Load succeeded.
FailedLoadQuits ==
    [][\A p \in Cmds :
          (dPc[p] = "load" /\ dPc'[p] = "idle") =>
              IF dErr'[p] # "nil"
              THEN /\ dEntries' = dEntries
                   /\ dRows' = dRows
                   /\ dMsg'[p] = "tea.QuitMsg"
              ELSE dMsg'[p] = "clearScreenMsg"]_vars

====
